---- MODULE Spec2Model ----
(***************************************************************************)
(* Model of the symbolic optimisation core of power_pnl:                   *)
(*   SymbolicModel.build  -> LagrangianBuilder -> DerivativesCalculator    *)
(*   -> SymbolicSolver.executar (linear solve | Newton-Raphson)            *)
(*   -> KKTChecker (six optimality checks and their message log).          *)
(*                                                                         *)
(* Numbers are exact rationals <<num, den>> (den > 0, lowest terms): the   *)
(* sympy numeric evaluation is modelled by exact arithmetic.  Symbolic     *)
(* expressions are polynomials (integer exponents, negative exponents for  *)
(* non-polynomial terms such as 1/x) over the ordered variable list        *)
(* VariableSet.all_symbols(); the Lagrangian also keeps its additive term  *)
(* structure, which KKTChecker._extrair_restricoes walks.                  *)
(***************************************************************************)
EXTENDS Integers, Sequences, FiniteSets, TLC

(***************************************************************************)
(* Exact rational arithmetic                                               *)
(***************************************************************************)
Abs(n) == IF n < 0 THEN -n ELSE n

RECURSIVE Gcd(_, _)
Gcd(a, b) == IF b = 0 THEN a ELSE Gcd(b, a % b)

Rat(n, d) ==
    LET g == Gcd(Abs(n), Abs(d))
        sg == IF d < 0 THEN -1 ELSE 1
    IN  <<(sg * n) \div g, (sg * d) \div g>>

RInt(n) == <<n, 1>>
RZero == <<0, 1>>
RAdd(a, b) ==
    LET g == Gcd(a[2], b[2])
    IN  Rat(a[1] * (b[2] \div g) + b[1] * (a[2] \div g), (a[2] \div g) * b[2])
RNeg(a) == <<-a[1], a[2]>>
RSub(a, b) == RAdd(a, RNeg(b))
RMul(a, b) ==
    LET g1 == Gcd(Abs(a[1]), b[2])
        g2 == Gcd(Abs(b[1]), a[2])
    IN  IF a[1] = 0 \/ b[1] = 0 THEN RZero
        ELSE <<(a[1] \div g1) * (b[1] \div g2), (a[2] \div g2) * (b[2] \div g1)>>
RInv(a) == IF a[1] < 0 THEN <<-a[2], -a[1]>> ELSE <<a[2], a[1]>>
RDiv(a, b) == RMul(a, RInv(b))
RAbs(a) == <<Abs(a[1]), a[2]>>

\* a < b, by comparing integer parts and then the reciprocals of the
\* fractional parts (no cross product, so no overflow).
RECURSIVE RLt(_, _)
RLt(a, b) ==
    LET fa == a[1] \div a[2]
        fb == b[1] \div b[2]
        ra == a[1] % a[2]
        rb == b[1] % b[2]
    IN  IF fa # fb THEN fa < fb
        ELSE IF rb = 0 THEN FALSE
        ELSE IF ra = 0 THEN TRUE
        ELSE RLt(<<b[2], rb>>, <<a[2], ra>>)
RGt(a, b) == RLt(b, a)

RECURSIVE RPowNat(_, _)
RPowNat(a, k) == IF k = 0 THEN RInt(1) ELSE RMul(a, RPowNat(a, k - 1))
\* a ** k for an integer k (a # 0 when k < 0)
RPow(a, k) == IF k >= 0 THEN RPowNat(a, k) ELSE RPowNat(RInv(a), -k)

RECURSIVE SumSeq(_)
SumSeq(s) == IF s = <<>> THEN RZero ELSE RAdd(Head(s), SumSeq(Tail(s)))

Range(s) == {s[i] : i \in DOMAIN s}

(***************************************************************************)
(* Symbol names.  str(symbol) is a sequence of one-character strings, so   *)
(* that startswith, substring search and int() act on the characters.      *)
(***************************************************************************)
\* the characters used by the names of the model, in code-point order
Alphabet == <<"0", "1", "2", "3", "4", "5", "6", "7", "8", "9",
              "P", "_", "a", "b", "c", "d", "l", "m", "n", "p", "s", "u", "x", "y">>
Digits == <<"0", "1", "2", "3", "4", "5", "6", "7", "8", "9">>

CharCode(ch) == CHOOSE i \in DOMAIN Alphabet : Alphabet[i] = ch
IsDigit(ch) == \E i \in DOMAIN Digits : Digits[i] = ch
DigitVal(ch) == (CHOOSE i \in DOMAIN Digits : Digits[i] = ch) - 1

\* str.startswith(prefix)
StartsWith(name, prefix) ==
    /\ Len(name) >= Len(prefix)
    /\ SubSeq(name, 1, Len(prefix)) = prefix

\* prefix in str  (substring test)
Contains(name, part) ==
    \E i \in 1..(Len(name) - Len(part) + 1) : SubSeq(name, i, i + Len(part) - 1) = part

\* int(text) succeeds on a non-empty string of decimal digits
IsIntText(text) == text # <<>> /\ \A i \in DOMAIN text : IsDigit(text[i])
RECURSIVE IntOfText(_)
IntOfText(text) ==
    IF text = <<>> THEN 0
    ELSE 10 * IntOfText(SubSeq(text, 1, Len(text) - 1)) + DigitVal(text[Len(text)])

\* decimal text of a natural number below 100
TextOfNat(k) == IF k < 10 THEN <<Digits[k + 1]>>
                ELSE <<Digits[(k \div 10) + 1], Digits[(k % 10) + 1]>>

\* Python string order (by code point, shorter prefix first)
RECURSIVE StrLt(_, _)
StrLt(a, b) ==
    IF b = <<>> THEN FALSE
    ELSE IF a = <<>> THEN TRUE
    ELSE IF Head(a) # Head(b) THEN CharCode(Head(a)) < CharCode(Head(b))
    ELSE StrLt(Tail(a), Tail(b))

\* sorted(set, key=str)
RECURSIVE SortedByStr(_)
SortedByStr(S) ==
    IF S = {} THEN <<>>
    ELSE LET least == CHOOSE a \in S : \A b \in S \ {a} : StrLt(a, b)
         IN  <<least>> \o SortedByStr(S \ {least})

P_lambda == <<"l", "a", "m", "b", "d", "a">>
P_pi_up == <<"p", "i", "_", "u", "p">>
P_pi_dn == <<"p", "i", "_", "d", "n">>
P_s == <<"s">>

\* sp.symbols(f'{prefix}1:{n+1}'): the names prefix1 .. prefixn
Symbols(prefix, n) == [i \in 1..n |-> prefix \o TextOfNat(i)]

(***************************************************************************)
(* Polynomial expressions.  A monomial is [c |-> integer coefficient,      *)
(* e |-> function from the names of its symbols to their (non-zero)        *)
(* exponents]; an expression is a sequence of monomials with distinct      *)
(* exponent maps (the arguments of a sympy Add).                           *)
(***************************************************************************)
Mono(c, e) == [c |-> c, e |-> e]
Konst(c) == Mono(c, <<>>)
Restrict(f, S) == [v \in S |-> f[v]]

FreeSymbols(p) == UNION {DOMAIN p[i].e : i \in DOMAIN p}

RECURSIVE SumInts(_, _)
SumInts(f, S) == IF S = {} THEN 0
                 ELSE LET v == CHOOSE v \in S : TRUE IN f[v] + SumInts(f, S \ {v})
MonoDegree(m) == SumInts(m.e, DOMAIN m.e)

\* p + m, merging like terms and dropping a zero coefficient
PAddMono(p, m) ==
    IF m.c = 0 THEN p
    ELSE IF \E i \in DOMAIN p : p[i].e = m.e
    THEN LET i == CHOOSE i \in DOMAIN p : p[i].e = m.e
             c == p[i].c + m.c
         IN  IF c = 0 THEN SubSeq(p, 1, i - 1) \o SubSeq(p, i + 1, Len(p))
             ELSE [p EXCEPT ![i].c = c]
    ELSE Append(p, m)

RECURSIVE PAdd(_, _)
PAdd(p, q) == IF q = <<>> THEN p ELSE PAdd(PAddMono(p, Head(q)), Tail(q))

PScale(k, p) == IF k = 0 THEN <<>> ELSE [i \in DOMAIN p |-> Mono(k * p[i].c, p[i].e)]
PNeg(p) == PScale(-1, p)

\* m * v for a symbol v
MonoTimesSym(m, v) ==
    IF v \in DOMAIN m.e
    THEN IF m.e[v] = -1 THEN Mono(m.c, Restrict(m.e, DOMAIN m.e \ {v}))
         ELSE Mono(m.c, [m.e EXCEPT ![v] = @ + 1])
    ELSE Mono(m.c, [w \in DOMAIN m.e \cup {v} |-> IF w = v THEN 1 ELSE m.e[w]])
PTimesSym(p, v) == [i \in DOMAIN p |-> MonoTimesSym(p[i], v)]

\* sympy.diff(m, v)
MonoDiff(m, v) ==
    IF m.e[v] = 1 THEN Mono(m.c, Restrict(m.e, DOMAIN m.e \ {v}))
    ELSE Mono(m.c * m.e[v], [m.e EXCEPT ![v] = @ - 1])
HasSymbol(p, v) == SelectSeq(p, LAMBDA m : v \in DOMAIN m.e)
Diff(p, v) == LET q == HasSymbol(p, v) IN [i \in DOMAIN q |-> MonoDiff(q[i], v)]

\* expr.evalf(subs=sol): the value of the expression at the point sol
RECURSIVE PowProduct(_, _, _)
PowProduct(e, S, sol) ==
    IF S = {} THEN RInt(1)
    ELSE LET v == CHOOSE v \in S : TRUE
         IN  RMul(RPow(sol[v], e[v]), PowProduct(e, S \ {v}, sol))
MonoEval(m, sol) == RMul(RInt(m.c), PowProduct(m.e, DOMAIN m.e, sol))
Eval(p, sol) == SumSeq([i \in DOMAIN p |-> MonoEval(p[i], sol)])
\* the expression has a value at the point (no zero under a negative power)
Definido(p, point) ==
    \A i \in DOMAIN p : \A v \in DOMAIN p[i].e : p[i].e[v] < 0 => point[v] # RZero

\* Poly.total_degree(), and whether as_poly succeeds (no negative power)
IsPolynomial(p) == \A i \in DOMAIN p : \A v \in DOMAIN p[i].e : p[i].e[v] > 0
TotalDegree(p) ==
    IF p = <<>> THEN -1
    ELSE LET ds == {MonoDegree(p[i]) : i \in DOMAIN p}
         IN  CHOOSE d \in ds : \A d2 \in ds : d2 <= d

\* coefficient of the monomial with exponent map e
CoeffOf(p, e) == IF \E i \in DOMAIN p : p[i].e = e
                 THEN p[CHOOSE i \in DOMAIN p : p[i].e = e].c ELSE 0
SymExp(v) == [w \in {v} |-> 1]

(***************************************************************************)
(* SymbolicModel: the declarative model and its build()                    *)
(***************************************************************************)
\* a relational expression lhs (rel) rhs, rel one of the sympy relationals
Rel(rel, lhs, rhs) == [rel |-> rel, lhs |-> lhs, rhs |-> rhs]
RelFreeSymbols(r) == FreeSymbols(r.lhs) \cup FreeSymbols(r.rhs)

\* the value held by SymbolicModel._constraint_exprs: None, the list of
\* relational expressions, or (after build) the ConstraintSet
NoConstraints == [tag |-> "none"]
ExprList(items) == [tag |-> "list", items |-> items]
ConstraintSet(eqs, ups, dns) ==
    [tag |-> "set", equalities |-> eqs, inequalities_up |-> ups, inequalities_dn |-> dns]

\* variant: one slack symbol more than there are inequalities
VariableSetFolgaAMais(x, n_eq, n_ineq_up, n_ineq_dn) ==
    [x |-> x,
     lmd |-> [i \in 1..n_eq |-> <<"l", "a", "m", "b", "d", "a">> \o <<Digits[i + 1]>>],
     pi_up |-> [i \in 1..n_ineq_up |-> <<"p", "i", "_", "u", "p">> \o <<Digits[i + 1]>>],
     pi_dn |-> [i \in 1..n_ineq_dn |-> <<"p", "i", "_", "d", "n">> \o <<Digits[i + 1]>>],
     s |-> [i \in 1..(n_ineq_up + n_ineq_dn + 1) |-> <<"s", Digits[i + 1]>>]]
\* VariableSet.__init__ followed by the assignment variables.x = simbolos
VariableSet(x, n_eq, n_ineq_up, n_ineq_dn) ==
    [x |-> x,
     lmd |-> Symbols(P_lambda, n_eq),
     pi_up |-> Symbols(P_pi_up, n_ineq_up),
     pi_dn |-> Symbols(P_pi_dn, n_ineq_dn),
     s |-> Symbols(P_s, n_ineq_up + n_ineq_dn)]

\* VariableSet.all_symbols()
AllSymbols(vs) == vs.x \o vs.lmd \o vs.pi_up \o vs.pi_dn \o vs.s

IsEquality(r) == r.rel = "eq"
IsLower(r) == r.rel \in {"ge", "gt"}
IsUpper(r) == r.rel \in {"le", "lt"}
KnownRel(r) == IsEquality(r) \/ IsLower(r) \/ IsUpper(r)

\* variant: a strict > is filed with the upper inequalities
ClassifyConstraintsEstrita(items) ==
    LET eqs == SelectSeq(items, LAMBDA r : r.rel = "eq")
        ups == SelectSeq(items, LAMBDA r : r.rel \in {"le", "lt", "gt"})
        dns == SelectSeq(items, LAMBDA r : r.rel = "ge")
    IN  [tag |-> "set",
         equalities |-> [i \in DOMAIN eqs |-> PAdd(eqs[i].lhs, PNeg(eqs[i].rhs))],
         inequalities_up |-> [i \in DOMAIN ups |-> <<ups[i].lhs, ups[i].rhs>>],
         inequalities_dn |-> [i \in DOMAIN dns |-> <<dns[i].lhs, dns[i].rhs>>]]
\* the loop of build() over the constraint expressions
ClassifyConstraints(items) ==
    LET eqs == SelectSeq(items, IsEquality)
        ups == SelectSeq(items, IsUpper)
        dns == SelectSeq(items, IsLower)
    IN  ConstraintSet([i \in DOMAIN eqs |-> PAdd(eqs[i].lhs, PNeg(eqs[i].rhs))],
                      [i \in DOMAIN ups |-> <<ups[i].lhs, ups[i].rhs>>],
                      [i \in DOMAIN dns |-> <<dns[i].lhs, dns[i].rhs>>])

\* whether build() completes on the model m
BuildOk(m) ==
    /\ m.objective_expr.set
    /\ m.constraint_exprs.tag = "list"
    /\ \A i \in DOMAIN m.constraint_exprs.items : KnownRel(m.constraint_exprs.items[i])

\* the model after SymbolicModel.build(): built when the call completes; as
\* it was when the objective is missing or the constraints are no list (the
\* call raises before any assignment); with the objective and the default
\* decision symbols only when a constraint is no recognised relational
Build(m) ==
    IF ~m.objective_expr.set \/ m.constraint_exprs.tag # "list" THEN m
    ELSE LET items == m.constraint_exprs.items
             simbolos == SortedByStr(FreeSymbols(m.objective_expr.expr)
                            \cup UNION {RelFreeSymbols(items[i]) : i \in DOMAIN items})
             restricoes == ClassifyConstraints(items)
         IN  IF \A i \in DOMAIN items : KnownRel(items[i])
             THEN [m EXCEPT !.constraint_exprs = restricoes,
                            !.objective = m.objective_expr,
                            !.variables = VariableSet(simbolos,
                                                      Len(restricoes.equalities),
                                                      Len(restricoes.inequalities_up),
                                                      Len(restricoes.inequalities_dn)),
                            !.built = TRUE]
             ELSE [m EXCEPT !.objective = m.objective_expr,
                            !.variables = VariableSet(Symbols(<<"x">>, Len(simbolos)),
                                                      0, 0, 0)]

(***************************************************************************)
(* LagrangianBuilder.  The Lagrangian is the sequence of the additive      *)
(* terms of the sympy expression; a term coef * mult * inner keeps the     *)
(* product unexpanded, as sympy does for a symbol times a sum.             *)
(***************************************************************************)
Term(coef, mult, inner) == [coef |-> coef, mult |-> mult, inner |-> inner]
ObjTerms(f) == [i \in DOMAIN f |-> Term(1, <<>>, <<f[i]>>)]
\* variant: the slack enters the Lagrangian to the first power
SquaredGrau1(v) == Mono(1, [w \in {v} |-> 1])
\* s_j**2, the slack of inequality j as it enters the Lagrangian
Squared(v) == Mono(1, [w \in {v} |-> 2])

\* variant: the lower inequalities take the sign of the upper ones
SinalDnSemTroca(mode) == IF mode = "min" THEN 1 ELSE -1
\* sinal of the upper / lower inequality terms
SinalUp(mode) == IF mode = "min" THEN 1 ELSE -1
SinalDn(mode) == IF mode = "min" THEN -1 ELSE 1

\* LagrangianBuilder._construir_lagrangeana
ConstruirLagrangeana(objective, vars, constraints, mode) ==
    LET f == objective.expr
        l0 == IF mode = "max" THEN PNeg(f) ELSE f
        eqs == constraints.equalities
        ups == constraints.inequalities_up
        dns == constraints.inequalities_dn
    IN  ObjTerms(l0)
        \o [i \in DOMAIN eqs |-> Term(-1, <<vars.lmd[i]>>, eqs[i])]
        \o [j \in DOMAIN ups |->
               Term(SinalUp(mode), <<vars.pi_up[j]>>,
                    PAddMono(PAdd(ups[j][1], PNeg(ups[j][2])), Squared(vars.s[j])))]
        \o [k \in DOMAIN dns |->
               Term(SinalDn(mode), <<vars.pi_dn[k]>>,
                    PAddMono(PAdd(dns[k][1], PNeg(dns[k][2])),
                             Mono(-1, Squared(vars.s[Len(ups) + k]).e)))]

\* the expanded polynomial of one term and of the whole expression
TermPoly(t) == PScale(t.coef, IF t.mult = <<>> THEN t.inner ELSE PTimesSym(t.inner, t.mult[1]))
RECURSIVE ExprPoly(_)
ExprPoly(terms) == IF terms = <<>> THEN <<>>
                   ELSE PAdd(TermPoly(Head(terms)), ExprPoly(Tail(terms)))

(***************************************************************************)
(* DerivativesCalculator over the subset "all"                             *)
(***************************************************************************)
Gradient(expr, varset) == [i \in DOMAIN varset |-> Diff(ExprPoly(expr), varset[i])]
Hessian(expr, varset) ==
    [i \in DOMAIN varset |-> [j \in DOMAIN varset |->
        Diff(Diff(ExprPoly(expr), varset[i]), varset[j])]]

(***************************************************************************)
(* Matrices of rationals (sequences of rows)                               *)
(***************************************************************************)
DropAt(s, j) == SubSeq(s, 1, j - 1) \o SubSeq(s, j + 1, Len(s))
MinorOf(M, j) == [r \in 1..(Len(M) - 1) |-> DropAt(M[r + 1], j)]

\* determinant, by expansion along the first row
RECURSIVE Det(_)
Det(M) ==
    IF Len(M) = 0 THEN RInt(1)
    ELSE IF Len(M) = 1 THEN M[1][1]
    ELSE SumSeq([j \in 1..Len(M) |->
            IF M[1][j] = RZero THEN RZero
            ELSE RMul(IF j % 2 = 1 THEN M[1][j] ELSE RNeg(M[1][j]), Det(MinorOf(M, j)))])

\* Matrix.rank() < n for an n x n matrix
RankDeficient(M) == Det(M) = RZero

ReplaceCol(M, j, b) == [r \in DOMAIN M |-> [M[r] EXCEPT ![j] = b[r]]]

\* M.inv() * b for a non-singular M
InvTimes(M, b) ==
    LET d == Det(M)
    IN  [j \in DOMAIN M |-> RDiv(Det(ReplaceCol(M, j, b)), d)]

\* bounds of a rational 0 <= r < 1 on the grid of 1/1024, computed without
\* large products: GridUp(r) >= r >= GridDown(r)
GridUp(r) ==
    LET k == r[2] \div 1000000
        p == IF k >= 2 THEN (r[1] \div k) + 1 ELSE r[1]
        q == IF k >= 2 THEN r[2] \div k ELSE r[2]
    IN  <<(1024 * p + q - 1) \div q, 1024>>
GridDown(r) ==
    LET k == r[2] \div 1000000
        p == IF k >= 2 THEN r[1] \div k ELSE r[1]
        q == IF k >= 2 THEN (r[2] \div k) + 1 ELSE r[2]
    IN  <<(1024 * p) \div q, 1024>>
SumSquares(vec) == SumSeq([i \in DOMAIN vec |-> Rat(vec[i][1] * vec[i][1], vec[i][2] * vec[i][2])])

\* Matrix.norm() < tol  (Euclidean norm of a vector): every component is
\* below tol in magnitude and the squares of the ratios to tol sum to less
\* than one; the sum is decided on the grid when the grid bounds decide it
NormLt(vec, tol) ==
    /\ RLt(RZero, tol)
    /\ \A i \in DOMAIN vec : RLt(RAbs(vec[i]), tol)
    /\ LET nz == SelectSeq(vec, LAMBDA g : g # RZero)
           ratio == [i \in DOMAIN nz |-> RAbs(RDiv(nz[i], tol))]
       IN  \/ Len(nz) <= 1
           \/ RLt(SumSquares([i \in DOMAIN nz |-> GridUp(ratio[i])]), RInt(1))
           \/ /\ RLt(SumSquares([i \in DOMAIN nz |-> GridDown(ratio[i])]), RInt(1))
              /\ RLt(SumSquares(ratio), RInt(1))

(***************************************************************************)
(* SymbolicSolver: pure parts                                              *)
(***************************************************************************)
\* the forms of x0 accepted by the constructor
X0None == [kind |-> "none", v |-> RZero, vals |-> <<>>, symkeys |-> <<>>, strkeys |-> <<>>]
X0Scalar(v) == [X0None EXCEPT !.kind = "scalar", !.v = v]
X0List(vals) == [X0None EXCEPT !.kind = "list", !.vals = vals]
X0Dict(symkeys, strkeys) == [X0None EXCEPT !.kind = "dict", !.symkeys = symkeys,
                                            !.strkeys = strkeys]

\* the value given to every variable that x0 leaves unassigned
ChuteDefault == <<1, 10>>
\* the value None of an entry of a dict x0
Nenhum == <<>>

\* variant: a list longer than the variable list is cut to it
PrepararChuteListaCortada(x0, variaveis) ==
    [v \in Range(variaveis) |->
        IF x0.kind = "scalar" THEN x0.v
        ELSE IF x0.kind = "list" /\ Len(x0.vals) >= Len(variaveis)
        THEN x0.vals[CHOOSE i \in DOMAIN variaveis : variaveis[i] = v]
        ELSE IF x0.kind = "dict" /\ DOMAIN x0.strkeys = {} /\ v \in DOMAIN x0.symkeys
                /\ x0.symkeys[v] # <<>>
        THEN x0.symkeys[v]
        ELSE IF x0.kind = "dict" /\ DOMAIN x0.symkeys = {} /\ v \in DOMAIN x0.strkeys
        THEN x0.strkeys[v]
        ELSE <<1, 10>>]
\* SymbolicSolver._preparar_chute
PrepararChute(x0, variaveis) ==
    LET vars == Range(variaveis)
        IndexOf(v) == CHOOSE i \in DOMAIN variaveis : variaveis[i] = v
        symdict == x0.kind = "dict" /\ DOMAIN x0.strkeys = {}
        strdict == x0.kind = "dict" /\ ~symdict /\ DOMAIN x0.symkeys = {}
        aslist == x0.kind = "list" /\ Len(x0.vals) = Len(variaveis)
        keys == IF symdict THEN DOMAIN x0.symkeys
                ELSE IF strdict THEN vars \cap DOMAIN x0.strkeys
                ELSE IF x0.kind = "scalar" \/ aslist THEN vars
                ELSE {}
        Given(v) == IF symdict THEN x0.symkeys[v]
                    ELSE IF strdict THEN x0.strkeys[v]
                    ELSE IF x0.kind = "scalar" THEN x0.v
                    ELSE x0.vals[IndexOf(v)]
    IN  [v \in vars \cup keys |->
            IF v \in keys /\ (v \notin vars \/ Given(v) # Nenhum) THEN Given(v)
            ELSE ChuteDefault]

\* variant: the iterate is the caller's dict itself
X0Partilhado(x0, point) ==
    IF x0.kind = "dict" /\ DOMAIN x0.strkeys = {}
    THEN [x0 EXCEPT !.symkeys = point] ELSE x0
\* what the caller's x0 holds after the loop has updated its iterate: the
\* iterate is a copy of a symbol-keyed dict, or a new dict, never x0 itself
X0AposPasso(x0, point) == x0

\* variant: total degree up to two counts as linear
SistemaLinearGrau2(gradiente) ==
    \A i \in DOMAIN gradiente :
        IsPolynomial(gradiente[i]) /\ TotalDegree(gradiente[i]) <= 2
\* SymbolicSolver._sistema_linear
SistemaLinear(gradiente) ==
    \A i \in DOMAIN gradiente :
        IsPolynomial(gradiente[i]) /\ TotalDegree(gradiente[i]) <= 1

\* sp.linear_eq_to_matrix(gradiente, variaveis)
LinearA(gradiente, variaveis) ==
    [i \in DOMAIN gradiente |-> [j \in DOMAIN variaveis |->
        RInt(CoeffOf(gradiente[i], SymExp(variaveis[j])))]]
LinearB(gradiente) == [i \in DOMAIN gradiente |-> RInt(-CoeffOf(gradiente[i], <<>>))]

\* [g.evalf(subs=xk) for g in gradiente]  and  hessiana.evalf(subs=xk)
GradEval(gradiente, point) == [i \in DOMAIN gradiente |-> Eval(gradiente[i], point)]
HessEval(hessiana, point) ==
    [i \in DOMAIN hessiana |-> [j \in DOMAIN hessiana[i] |-> Eval(hessiana[i][j], point)]]

\* variant: the test against ten times the tolerance
ConvergiuFrouxo(grad_eval, tol) == NormLt(grad_eval, RMul(RInt(10), tol))
\* the convergence test of the Newton loop
Convergiu(grad_eval, tol) == NormLt(grad_eval, tol)

\* variant: the step without the minus sign
NewtonDeltaSemSinal(hess_eval, grad_eval) == InvTimes(hess_eval, grad_eval)
\* delta = -hess_eval.inv() * grad_eval
NewtonDelta(hess_eval, grad_eval) ==
    LET d == InvTimes(hess_eval, grad_eval) IN [i \in DOMAIN d |-> RNeg(d[i])]

\* for i, v in enumerate(variaveis): xk[v] += delta[i]
NewtonUpdate(point, variaveis, delta) ==
    [v \in DOMAIN point |->
        IF v \in Range(variaveis)
        THEN RAdd(point[v], delta[CHOOSE i \in DOMAIN variaveis : variaveis[i] = v])
        ELSE point[v]]

\* the result records and the errors of executar()
NoResult == [kind |-> "none", keys |-> {}, solucao |-> <<>>, iteracoes |-> 0,
             fob |-> RZero, err |-> "none", count |-> 0]
LinearRecord(solucao, fob) ==
    [NoResult EXCEPT !.kind = "record", !.keys = {"solucao", "fob", "iteracoes"},
                     !.solucao = solucao, !.fob = fob, !.iteracoes = 1]
NewtonRecord(solucao, loopvar) ==
    [NoResult EXCEPT !.kind = "record", !.keys = {"solucao", "iteracoes"},
                     !.solucao = solucao, !.iteracoes = loopvar + 1]
Raised(err, count) == [NoResult EXCEPT !.kind = "error", !.err = err, !.count = count]

\* raise ValueError(f"... nao convergiu em {it+1} iteracoes") after the loop;
\* the loop variable is unbound (-1 here) when the loop body never ran
NaoConvergiu(loopvar) ==
    IF loopvar < 0 THEN Raised("UnboundLocalError", 0)
    ELSE Raised("ValueError_nao_convergiu", loopvar + 1)

\* variant: a pass that goes on, without an update, when the Hessian is singular
NewtonPassSemRank(sv, loopvar, point) ==
    LET grad_eval == GradEval(sv.gradiente, point)
        hess_eval == HessEval(sv.hessiana, point)
    IN  IF Convergiu(grad_eval, sv.tol)
        THEN [pc |-> "converged", xk |-> point, resultado |-> NewtonRecord(point, loopvar)]
        ELSE IF RankDeficient(hess_eval)
        THEN [pc |-> "newton", xk |-> point, resultado |-> NoResult]
        ELSE [pc |-> "newton",
              xk |-> NewtonUpdate(point, sv.variaveis, NewtonDelta(hess_eval, grad_eval)),
              resultado |-> NoResult]
\* variant: the iterate is moved before the rank is looked at
HessianaSingularComPasso(point) ==
    [pc |-> "failed", xk |-> [v \in DOMAIN point |-> RAdd(point[v], RInt(1))],
     resultado |-> Raised("ValueError_hessiana_singular", 0)]
\* the raise inside the try block: rank < nvars is found before delta is
\* computed, and xk is left as it was evaluated
HessianaSingular(point) ==
    [pc |-> "failed", xk |-> point, resultado |-> Raised("ValueError_hessiana_singular", 0)]

\* one pass of the body of "for it in range(max_iter)" at loop variable loopvar:
\* the convergence test, then the rank test, then the update
NewtonPass(sv, loopvar, point) ==
    LET grad_eval == GradEval(sv.gradiente, point)
        hess_eval == HessEval(sv.hessiana, point)
    IN  IF Convergiu(grad_eval, sv.tol)
        THEN [pc |-> "converged", xk |-> point, resultado |-> NewtonRecord(point, loopvar)]
        ELSE IF RankDeficient(hess_eval)
        THEN HessianaSingular(point)
        ELSE [pc |-> "newton",
              xk |-> NewtonUpdate(point, sv.variaveis, NewtonDelta(hess_eval, grad_eval)),
              resultado |-> NoResult]

\* SymbolicSolver._resolver_linear
ResolverLinear(sv, objective) ==
    LET matrix_a == LinearA(sv.gradiente, sv.variaveis)
        b == LinearB(sv.gradiente)
        x == InvTimes(matrix_a, b)
        solucao == [v \in Range(sv.variaveis) |->
                       x[CHOOSE i \in DOMAIN sv.variaveis : sv.variaveis[i] = v]]
    IN  IF RankDeficient(matrix_a)
        THEN [pc |-> "linear_failed", resultado |-> Raised("NonInvertibleMatrixError", 0)]
        ELSE [pc |-> "linear_solved",
              resultado |-> LinearRecord(solucao, Eval(objective.expr, solucao))]

(***************************************************************************)
(* KKTChecker: pure parts.  A checker k has the fields lagrangeana,        *)
(* solucao (name -> value), ordem (the keys of solucao in dict order),     *)
(* tol, restricoes, variaveis, multipliers and resultado_kkt (the log).    *)
(***************************************************************************)
KktTolDefault == <<1, 100000000>>

\* the markers of the filter of __init__
Filtros == <<P_lambda, P_pi_up, P_pi_dn, P_s>>

\* self.variaveis: the keys of solucao that contain none of the markers
Variaveis(ordem) ==
    SelectSeq(ordem, LAMBDA k : \A i \in DOMAIN Filtros : ~Contains(k, Filtros[i]))

\* str(k)[len(prefixo):]
Sufixo(k, prefixo) == SubSeq(k, Len(prefixo) + 1, Len(k))

\* whether every int(...) of _extrair_lista(prefixo) succeeds
ListaOk(ordem, prefixo) ==
    \A i \in DOMAIN ordem :
        StartsWith(ordem[i], prefixo) => IsIntText(Sufixo(ordem[i], prefixo))

RECURSIVE SortedByIndex(_, _)
SortedByIndex(S, prefixo) ==
    IF S = {} THEN <<>>
    ELSE LET least == CHOOSE a \in S : \A b \in S :
                          IntOfText(Sufixo(a, prefixo)) <= IntOfText(Sufixo(b, prefixo))
         IN  <<least>> \o SortedByIndex(S \ {least}, prefixo)

\* KKTChecker._extrair_lista: the values of the keys that start with
\* prefixo, ordered by the index that follows the prefix
ExtrairLista(solucao, prefixo) ==
    LET ks == SortedByIndex({k \in DOMAIN solucao : StartsWith(k, prefixo)}, prefixo)
    IN  [i \in DOMAIN ks |-> solucao[ks[i]]]

\* subtermo.is_Pow: a single symbol raised to a power, with coefficient one
IsPow(m) == m.c = 1 /\ Cardinality(DOMAIN m.e) = 1 /\ \A v \in DOMAIN m.e : m.e[v] # 1
PowBase(m) == CHOOSE v \in DOMAIN m.e : TRUE

\* expr_sem_s: expr minus every argument that is a power of a symbol whose
\* name starts with 's'
SemFolga(expr) ==
    SelectSeq(expr, LAMBDA m : ~(IsPow(m) /\ StartsWith(PowBase(m), P_s)))

\* (mult, expr) when the term is a Mul of exactly two arguments whose first
\* is a Symbol, none otherwise.  sinal * pi * (sum) is Mul(pi, sum) for
\* sinal = +1 and Mul(-1, pi, sum) for sinal = -1; -lambda * h is
\* Mul(-1, lambda, h); an objective monomial is such a Mul when it is the
\* product of two plain symbols (sorted by name).
ParDoTermo(t) ==
    IF t.mult # <<>>
    THEN IF t.coef = 1 /\ Len(t.inner) >= 2
         THEN <<[mult |-> t.mult[1], expr |-> t.inner]>>
         ELSE <<>>
    ELSE LET m == t.inner[1]
             syms == DOMAIN m.e
         IN  IF m.c = 1 /\ Cardinality(syms) = 2 /\ \A v \in syms : m.e[v] = 1
             THEN LET first == CHOOSE a \in syms : \A b \in syms \ {a} : StrLt(a, b)
                  IN  <<[mult |-> first, expr |-> <<Mono(1, Restrict(m.e, syms \ {first}))>>]>>
             ELSE <<>>

RECURSIVE RestricoesDosTermos(_)
RestricoesDosTermos(terms) ==
    IF terms = <<>> THEN <<>>
    ELSE LET par == ParDoTermo(Head(terms))
         IN  [i \in DOMAIN par |-> [mult |-> par[i].mult, expr |-> SemFolga(par[i].expr)]]
             \o RestricoesDosTermos(Tail(terms))

\* KKTChecker._extrair_restricoes: lagrangeana.args are the additive terms
\* when the Lagrangian is a sum; the arguments of a single term are numbers,
\* symbols and powers, never a Mul
ExtrairRestricoes(lagrangeana) ==
    IF Len(lagrangeana) < 2 THEN <<>> ELSE RestricoesDosTermos(lagrangeana)

\* the messages of the log
Msg(check, who) == [check |-> check, who |-> who]
MsgSucesso == Msg("todas_satisfeitas", <<>>)
MsgViolacao == Msg("viola_alguma", <<>>)

\* what a check returns and what it appends to resultado_kkt
Passou == [ok |-> TRUE, msgs |-> <<>>]
Falhou(check, who) == [ok |-> FALSE, msgs |-> <<Msg(check, who)>>]

\* index of the first element of seq that satisfies Bad, 0 when none does
PrimeiroRuim(seq, Bad(_)) ==
    IF \E i \in DOMAIN seq : Bad(seq[i])
    THEN CHOOSE i \in DOMAIN seq : Bad(seq[i]) /\ \A j \in 1..(i - 1) : ~Bad(seq[j])
    ELSE 0

\* diff(self.lagrangeana, var).evalf(subs=self.solucao)
DerivadaEm(k, var) == Eval(Diff(ExprPoly(k.lagrangeana), var), k.solucao)

\* KKTChecker.verificar_estacionariedade
VerificarEstacionariedade(k) ==
    LET Bad(var) == RGt(RAbs(DerivadaEm(k, var)), k.tol)
        i == PrimeiroRuim(k.variaveis, Bad)
    IN  IF i = 0 THEN Passou ELSE Falhou("estacionariedade", k.variaveis[i])

\* KKTChecker.verificar_complementaridade_primal
VerificarComplementaridadePrimal(k) ==
    LET Bad(var) == RGt(RAbs(RMul(DerivadaEm(k, var), k.solucao[var])), k.tol)
        i == PrimeiroRuim(k.variaveis, Bad)
    IN  IF i = 0 THEN Passou ELSE Falhou("complementaridade_primal", k.variaveis[i])

\* the branch of verificar_satisfacao_restricoes taken by one restriction
RestricaoViolada(k, r) ==
    LET valor == Eval(r.expr, k.solucao)
    IN  IF StartsWith(r.mult, P_lambda) THEN RGt(RAbs(valor), k.tol)
        ELSE IF StartsWith(r.mult, P_pi_dn) THEN RLt(valor, RNeg(k.tol))
        ELSE IF StartsWith(r.mult, P_pi_up) THEN RGt(valor, k.tol)
        ELSE FALSE
TipoDaRestricao(r) ==
    IF StartsWith(r.mult, P_lambda) THEN "igualdade"
    ELSE IF StartsWith(r.mult, P_pi_dn) THEN "desigualdade_dn"
    ELSE "desigualdade_up"

\* KKTChecker.verificar_satisfacao_restricoes
VerificarSatisfacaoRestricoes(k) ==
    LET Bad(r) == RestricaoViolada(k, r)
        i == PrimeiroRuim(k.restricoes, Bad)
    IN  IF i = 0 THEN Passou
        ELSE Falhou(TipoDaRestricao(k.restricoes[i]), k.restricoes[i].mult)

\* KKTChecker.verificar_complementaridade_dual
VerificarComplementaridadeDual(k) ==
    LET Bad(r) == RGt(RAbs(RMul(k.solucao[r.mult], Eval(r.expr, k.solucao))), k.tol)
        i == PrimeiroRuim(k.restricoes, Bad)
    IN  IF i = 0 THEN Passou ELSE Falhou("complementaridade_dual", k.restricoes[i].mult)

\* KKTChecker.verificar_dominio_primal
VerificarDominioPrimal(k) ==
    LET Bad(r) ==
            /\ Cardinality(FreeSymbols(r.expr)) = 1
            /\ \/ StartsWith(r.mult, P_pi_up) /\ RGt(Eval(r.expr, k.solucao), k.tol)
               \/ StartsWith(r.mult, P_pi_dn) /\ RLt(Eval(r.expr, k.solucao), RNeg(k.tol))
        i == PrimeiroRuim(k.restricoes, Bad)
    IN  IF i = 0 THEN Passou
        ELSE Falhou("dominio_primal", CHOOSE v \in FreeSymbols(k.restricoes[i].expr) : TRUE)

\* KKTChecker.verificar_dominio_multiplicadores (the values are real, so
\* only the sign of the pi_up and of the pi_dn can fail)
VerificarDominioMultiplicadores(k) ==
    LET Bad(val) == RLt(val, RNeg(k.tol))
        iup == PrimeiroRuim(k.multipliers.pi_up, Bad)
        idn == PrimeiroRuim(k.multipliers.pi_dn, Bad)
    IN  IF iup # 0 THEN Falhou("multiplicador_negativo", P_pi_up \o TextOfNat(iup))
        ELSE IF idn # 0 THEN Falhou("multiplicador_negativo", P_pi_dn \o TextOfNat(idn))
        ELSE Passou

\* variant: primal complementarity called before stationarity
ChecksTrocados(k) ==
    <<VerificarComplementaridadePrimal(k), VerificarEstacionariedade(k),
      VerificarSatisfacaoRestricoes(k), VerificarComplementaridadeDual(k),
      VerificarDominioPrimal(k), VerificarDominioMultiplicadores(k)>>
\* the list "checks" of verificar_todas: the six checks, called in this order
Checks(k) ==
    <<VerificarEstacionariedade(k), VerificarComplementaridadePrimal(k),
      VerificarSatisfacaoRestricoes(k), VerificarComplementaridadeDual(k),
      VerificarDominioPrimal(k), VerificarDominioMultiplicadores(k)>>

\* variant: the calls stop at the first check that fails
RECURSIVE ColetarAtePrimeiraFalha(_)
ColetarAtePrimeiraFalha(checks) ==
    IF checks = <<>> THEN <<>>
    ELSE IF ~Head(checks).ok THEN Head(checks).msgs
    ELSE ColetarAtePrimeiraFalha(Tail(checks))
\* what the calls that build the list append to the log, in call order
RECURSIVE Coletar(_)
Coletar(checks) ==
    IF checks = <<>> THEN <<>> ELSE Head(checks).msgs \o Coletar(Tail(checks))

\* all(checks)
All(checks) == \A i \in DOMAIN checks : checks[i].ok

\* KKTChecker.verificar_todas: the returned pair and the log it leaves
VerificarTodas(k) ==
    LET checks == Checks(k)
        log == k.resultado_kkt \o Coletar(checks)
               \o <<IF All(checks) THEN MsgSucesso ELSE MsgViolacao>>
    IN  [ok |-> All(checks), log |-> log]

\* KKTChecker.__init__ on a solution whose keys, in order, are ordem
NoKkt ==
    [estado |-> "none", lagrangeana |-> <<>>, solucao |-> <<>>, ordem |-> <<>>,
     tol |-> RZero, restricoes |-> <<>>, variaveis |-> <<>>,
     multipliers |-> [lambda |-> <<>>, pi_up |-> <<>>, pi_dn |-> <<>>, s |-> <<>>],
     resultado_kkt |-> <<>>]
NewKkt(lagrangeana, solucao, ordem, tol) ==
    IF \A i \in DOMAIN Filtros : ListaOk(ordem, Filtros[i])
    THEN [estado |-> "ready", lagrangeana |-> lagrangeana, solucao |-> solucao,
          ordem |-> ordem, tol |-> tol,
          restricoes |-> ExtrairRestricoes(lagrangeana),
          variaveis |-> Variaveis(ordem),
          multipliers |-> [lambda |-> ExtrairLista(solucao, P_lambda),
                           pi_up |-> ExtrairLista(solucao, P_pi_up),
                           pi_dn |-> ExtrairLista(solucao, P_pi_dn),
                           s |-> ExtrairLista(solucao, P_s)],
          resultado_kkt |-> <<>>]
    ELSE [NoKkt EXCEPT !.estado = "ValueError_int"]

(***************************************************************************)
(* ConvexityAnalyzer: pure parts.  A point is a tuple of numbers, one per  *)
(* variable; a domain is None, a list of points, a tuple (min, max) or     *)
(* (min, max, passo), a dict from the variables to such tuples, or a value *)
(* of another type.                                                        *)
(***************************************************************************)
NoDominio == [kind |-> "none", len |-> 0, lo |-> RZero, hi |-> RZero, passo |-> RZero,
              pontos |-> <<>>, intervalos |-> <<>>]
DomTupla(len, lo, hi, passo) ==
    [NoDominio EXCEPT !.kind = "tuple", !.len = len, !.lo = lo, !.hi = hi, !.passo = passo]
DomLista(pontos) == [NoDominio EXCEPT !.kind = "list", !.pontos = pontos]
DomDict(intervalos) == [NoDominio EXCEPT !.kind = "dict", !.intervalos = intervalos]
DomOutro == [NoDominio EXCEPT !.kind = "other", !.len = 1]

\* "if dominio": None and the empty list, tuple and dict are false
DominioDado(d) ==
    CASE d.kind = "none" -> FALSE
      [] d.kind = "list" -> d.pontos # <<>>
      [] d.kind = "tuple" -> d.len > 0
      [] d.kind = "dict" -> DOMAIN d.intervalos # {}
      [] OTHER -> TRUE

\* np.linspace(lo, hi, 5)
NumPontos == 5
Linspace(lo, hi) ==
    [i \in 1..NumPontos |->
        RAdd(lo, RMul(RInt(i - 1), RDiv(RSub(hi, lo), RInt(NumPontos - 1))))]

\* np.arange(lo, stop, passo) for passo > 0, in exact arithmetic
Arange(lo, stop, passo) ==
    LET q == RDiv(RSub(stop, lo), passo)
        n == IF q[1] <= 0 THEN 0 ELSE (q[1] + q[2] - 1) \div q[2]
    IN  [i \in 1..n |-> RAdd(lo, RMul(RInt(i - 1), passo))]

\* the grid of an interval of 2 or of 3 elements
Grade(iv) == IF iv.len = 2 THEN Linspace(iv.lo, iv.hi)
             ELSE Arange(iv.lo, RAdd(iv.hi, iv.passo), iv.passo)

\* list(itertools.product(*grades)): the last coordinate varies fastest
RECURSIVE Produto(_)
Produto(grades) ==
    IF grades = <<>> THEN << <<>> >>
    ELSE LET resto == Produto(Tail(grades))
             g == Head(grades)
         IN  [k \in 1..(Len(g) * Len(resto)) |->
                <<g[((k - 1) \div Len(resto)) + 1]>> \o resto[((k - 1) % Len(resto)) + 1]]

\* ConvexityAnalyzer._gerar_pontos: the points, or the error it raises
GerarPontos(d, variaveis) ==
    LET nvars == Len(variaveis)
        Pontos(ps) == [err |-> "none", pontos |-> ps]
        Erro(e) == [err |-> e, pontos |-> <<>>]
    IN  CASE d.kind = "list" ->
                IF \A i \in DOMAIN d.pontos : Len(d.pontos[i]) = nvars
                THEN Pontos(d.pontos) ELSE Erro("ValueError")
          [] d.kind = "tuple" ->
                IF d.len \in {2, 3} THEN Pontos(Produto([i \in 1..nvars |-> Grade(d)]))
                ELSE Erro("ValueError")
          [] d.kind = "dict" ->
                IF \E i \in 1..nvars : variaveis[i] \notin DOMAIN d.intervalos
                THEN LET falta == CHOOSE i \in 1..nvars :
                                     /\ variaveis[i] \notin DOMAIN d.intervalos
                                     /\ \A j \in 1..(i - 1) : variaveis[j] \in DOMAIN d.intervalos
                     IN  IF \E j \in 1..(falta - 1) : d.intervalos[variaveis[j]].len \notin {2, 3}
                         THEN Erro("ValueError") ELSE Erro("KeyError")
                ELSE IF \E i \in 1..nvars : d.intervalos[variaveis[i]].len \notin {2, 3}
                THEN Erro("ValueError")
                ELSE Pontos(Produto([i \in 1..nvars |-> Grade(d.intervalos[variaveis[i]])]))
          [] OTHER -> Erro("ValueError")

\* subs=dict(zip(vars, ponto))
Substituicao(variaveis, ponto) ==
    [v \in Range(variaveis) |-> ponto[CHOOSE i \in DOMAIN variaveis : variaveis[i] = v]]

\* abs(v) < 1e-10.  Every number of the model is a ratio of integers below
\* 2^31, so a number other than zero is above 1e-10 in magnitude.
QuaseZero(v) == v[1] = 0
Pos(v) == v[1] > 0
Neg(v) == v[1] < 0

\* ConvexityAnalyzer._classificar_valores_1d
ClassificarValores1d(valores) ==
    LET Todos(T(_)) == \A i \in DOMAIN valores : T(valores[i])
    IN  IF valores = <<>> THEN "indeterminado"
        ELSE IF Todos(Pos) THEN "estritamente convexa"
        ELSE IF Todos(LAMBDA v : ~Neg(v)) THEN "convexa"
        ELSE IF Todos(Neg) THEN "estritamente concava"
        ELSE IF Todos(LAMBDA v : ~Pos(v)) THEN "concava"
        ELSE IF Todos(QuaseZero) THEN "linear"
        ELSE "nem convexa nem concava"

\* the Hessian has a value at the point: float() of an entry that evaluates
\* to zoo raises TypeError.  In the functions of the model only the first
\* diagonal entry, which is also the first minor, can lack a value.
Avaliavel(a, p) ==
    \A i \in DOMAIN a.hessian : \A j \in DOMAIN a.hessian[i] :
        Definido(a.hessian[i][j], Substituicao(a.vars, p))

\* variant: the first point without a value ends the sampling
PontosAteFalha(a) ==
    LET ruins == {i \in DOMAIN a.pontos : ~Avaliavel(a, a.pontos[i])}
    IN  IF ruins = {} THEN a.pontos
        ELSE SubSeq(a.pontos, 1, (CHOOSE i \in ruins : \A j \in ruins : i <= j) - 1)

\* the try/except of the three sampling loops: a point at which the
\* evaluation raises is left out and the loop goes on
PontosUsaveis(a) == SelectSeq(a.pontos, LAMBDA p : Avaliavel(a, p))

\* the loop of _convexidade_1d: the second derivative at the first
\* coordinate of every point that has a value
Valores1d(a) ==
    LET ps == PontosUsaveis(a)
    IN  [k \in DOMAIN ps |-> Eval(a.hessian[1][1], Substituicao(a.vars, ps[k]))]

\* ConvexityAnalyzer._convexidade_1d
Convexidade1d(a) ==
    LET deriv2 == a.hessian[1][1]
    IN  IF a.pontos # <<>>
        THEN ClassificarValores1d(Valores1d(a))
        ELSE IF FreeSymbols(deriv2) = {}
        THEN ClassificarValores1d(<<Eval(deriv2, <<>>)>>)
        ELSE "nem convexa nem concava"

\* ConvexityAnalyzer._convexidade_2d
Convexidade2d(a) ==
    LET ps == PontosUsaveis(a)
        H(k) == HessEval(a.hessian, Substituicao(a.vars, ps[k]))
        h11s == [k \in DOMAIN ps |-> H(k)[1][1]]
        h22s == [k \in DOMAIN ps |-> H(k)[2][2]]
        dets == [k \in DOMAIN ps |-> Det(H(k))]
        Todos(lst, T(_)) == \A k \in DOMAIN lst : T(lst[k])
        NaoNeg(v) == ~Neg(v)
        NaoPos(v) == ~Pos(v)
    IN  IF ps = <<>> THEN "indeterminado"
        ELSE IF Todos(h11s, QuaseZero) /\ Todos(h22s, QuaseZero) /\ Todos(dets, QuaseZero)
        THEN "linear"
        ELSE IF \E k \in DOMAIN dets : Neg(dets[k]) THEN "nem convexa nem concava"
        ELSE IF Todos(h11s, Pos) /\ Todos(h22s, Pos) /\ Todos(dets, NaoNeg)
        THEN "estritamente convexa"
        ELSE IF Todos(h11s, NaoNeg) /\ Todos(h22s, NaoNeg) /\ Todos(dets, NaoNeg)
        THEN "convexa"
        ELSE IF Todos(h11s, Neg) /\ Todos(h22s, Neg) /\ Todos(dets, Pos)
        THEN "estritamente concava"
        ELSE IF Todos(h11s, NaoPos) /\ Todos(h22s, NaoPos) /\ Todos(dets, NaoNeg)
        THEN "concava"
        ELSE "nem convexa nem concava"

\* the loop of _convexidade_nd: at every usable point, the leading principal
\* minors of order 1..n of the Hessian
Menores(a) ==
    LET ps == PontosUsaveis(a)
        H(p) == HessEval(a.hessian, Substituicao(a.vars, ps[p]))
    IN  [p \in DOMAIN ps |->
            [k \in 1..Len(a.vars) |-> Det([i \in 1..k |-> SubSeq(H(p)[i], 1, k)])]]

\* ConvexityAnalyzer._convexidade_nd: colunas[k] holds the k-th leading
\* principal minor at every usable point, and the alternation tests run over
\* the positions of a column
ConvexidadeNd(a) ==
    LET n == Len(a.vars)
        ps == PontosUsaveis(a)
        resultados == Menores(a)
        colunas == [k \in 1..n |-> [p \in DOMAIN ps |-> resultados[p][k]]]
        Todas(T(_)) == \A k \in 1..n : \A p \in DOMAIN ps : T(colunas[k][p])
        NaoNeg(v) == ~Neg(v)
        NaoPos(v) == ~Pos(v)
        AlternanciaEstrita(col) ==
            \A i \in DOMAIN col : IF i % 2 = 1 THEN Neg(col[i]) ELSE Pos(col[i])
        Alternancia(col) ==
            \A i \in DOMAIN col : IF i % 2 = 1 THEN NaoPos(col[i]) ELSE NaoNeg(col[i])
    IN  IF ps = <<>> THEN "indeterminado"
        ELSE IF Todas(QuaseZero) THEN "linear"
        ELSE IF Todas(Pos) THEN "estritamente convexa"
        ELSE IF Todas(NaoNeg) THEN "convexa"
        ELSE IF \A k \in 1..n : AlternanciaEstrita(colunas[k]) THEN "estritamente concava"
        ELSE IF \A k \in 1..n : Alternancia(colunas[k]) THEN "concava"
        ELSE "nem convexa nem concava"

\* ConvexityAnalyzer.classificar
Classificar(a) ==
    IF Len(a.vars) = 1 THEN Convexidade1d(a)
    ELSE IF Len(a.vars) = 2 THEN Convexidade2d(a)
    ELSE ConvexidadeNd(a)

\* the analyzer: its constructor arguments, then the points made by __init__
NoAnalise == [estado |-> "none", hessian |-> <<>>, vars |-> <<>>, dominio |-> NoDominio,
              pontos |-> <<>>, tipo |-> "none"]

(***************************************************************************)
(* Inputs of the model                                                     *)
(***************************************************************************)
N_x1 == <<"x", "1">>
N_x2 == <<"x", "2">>
N_cs == <<"c", "s">>
N_sx == <<"s", "x">>
Pw(c, v, k) == Mono(c, [w \in {v} |-> k])
Cross(c, v, w) == Mono(c, [u \in {v, w} |-> 1])

\* objective expressions and constraint lists given to SymbolicModel
Cases ==
    << \* 1: x1**2 - 2*x1
       [obj |-> <<Pw(1, N_x1, 2), Pw(-2, N_x1, 1)>>, cons |-> <<>>],
       \* 2: x1
       [obj |-> <<Pw(1, N_x1, 1)>>, cons |-> <<>>],
       \* 3: x1**3 - 3*x1
       [obj |-> <<Pw(1, N_x1, 3), Pw(-3, N_x1, 1)>>, cons |-> <<>>],
       \* 4: x1**3 + x1
       [obj |-> <<Pw(1, N_x1, 3), Pw(1, N_x1, 1)>>, cons |-> <<>>],
       \* 5: 1/x1
       [obj |-> <<Pw(1, N_x1, -1)>>, cons |-> <<>>],
       \* 6: x1**2 + x1*x2 + x2**2 - 3*x1
       [obj |-> <<Pw(1, N_x1, 2), Cross(1, N_x1, N_x2), Pw(1, N_x2, 2), Pw(-3, N_x1, 1)>>,
        cons |-> <<>>],
       \* 7: x1**2 + x2**2  subject to  x1 + x2 = 2
       [obj |-> <<Pw(1, N_x1, 2), Pw(1, N_x2, 2)>>,
        cons |-> <<Rel("eq", <<Pw(1, N_x1, 1), Pw(1, N_x2, 1)>>, <<Konst(2)>>)>>],
       \* 8: x1**2  subject to  x1 <= 1
       [obj |-> <<Pw(1, N_x1, 2)>>,
        cons |-> <<Rel("le", <<Pw(1, N_x1, 1)>>, <<Konst(1)>>)>>],
       \* 9: x1**2  subject to  x1 >= 1
       [obj |-> <<Pw(1, N_x1, 2)>>,
        cons |-> <<Rel("ge", <<Pw(1, N_x1, 1)>>, <<Konst(1)>>)>>],
       \* 10: cs**2 - 2*cs + x1**2
       [obj |-> <<Pw(1, N_cs, 2), Pw(-2, N_cs, 1), Pw(1, N_x1, 2)>>, cons |-> <<>>],
       \* 11: sx**2 - 2*sx
       [obj |-> <<Pw(1, N_sx, 2), Pw(-2, N_sx, 1)>>, cons |-> <<>>],
       \* 12: x1**3 - 3*x1**2 + 3*x1
       [obj |-> <<Pw(1, N_x1, 3), Pw(-3, N_x1, 2), Pw(3, N_x1, 1)>>, cons |-> <<>>],
       \* 13: x1**3 + 3*x1
       [obj |-> <<Pw(1, N_x1, 3), Pw(3, N_x1, 1)>>, cons |-> <<>>],
       \* 14: x1**4
       [obj |-> <<Pw(1, N_x1, 4)>>, cons |-> <<>>] >>

Modes == {"min", "max", "auto"}
MaxIter == 2
\* iterates whose numerators or denominators exceed MaxNum are not evaluated
MaxNum == 500
InRange(point) ==
    \A v \in DOMAIN point : Abs(point[v][1]) <= MaxNum /\ point[v][2] <= MaxNum
TolDefault == <<1, 1000000>>
Tols == {TolDefault, <<1, 5>>}
X0s == {X0None, X0Scalar(RInt(1)), X0Scalar(RInt(2)), X0Scalar(<<1, 200>>)}
Entries == {"executar", "newton"}
Dominios == {"none", "malformed"}

\* candidate solutions handed to a KKTChecker built directly on a model
XVals == {RInt(0), RInt(1), RInt(2)}
MultVals == {RInt(-1), RInt(0), RInt(1)}
SlackVals == {RInt(0), RInt(1)}
Candidatos(vs) ==
    {f \in [Range(AllSymbols(vs)) -> XVals \cup MultVals \cup SlackVals] :
        \A v \in DOMAIN f :
            f[v] \in (IF v \in Range(vs.x) THEN XVals
                      ELSE IF v \in Range(vs.s) THEN SlackVals ELSE MultVals)}
KktTols == {KktTolDefault}
\* number of single check calls made on one checker before verificar_todas
MaxCalls == 1
\* number of calls of executar() made on one solver
MaxRuns == 2
\* a symbol-keyed dict x0 that names the first decision variable only
X0Parcial(xs) == IF xs = <<>> THEN {} ELSE {X0Dict([v \in {xs[1]} |-> RInt(2)], <<>>)}

\* relational expressions given as constraints: x1 + x2 = 2, x1 <= 1,
\* x2 < 3, x2 >= 1, x1 > -1 and x1 != x2 (no recognised kind)
Relacoes ==
    {Rel("eq", <<Pw(1, N_x1, 1), Pw(1, N_x2, 1)>>, <<Konst(2)>>),
     Rel("le", <<Pw(1, N_x1, 1)>>, <<Konst(1)>>),
     Rel("lt", <<Pw(1, N_x2, 1)>>, <<Konst(3)>>),
     Rel("ge", <<Pw(1, N_x2, 1)>>, <<Konst(1)>>),
     Rel("gt", <<Pw(1, N_x1, 1)>>, <<Konst(-1)>>),
     Rel("ne", <<Pw(1, N_x1, 1)>>, <<Pw(1, N_x2, 1)>>)}
\* length of the constraint lists
MaxCons == 2
\* the models x1**2 + x2**2 subject to a list of these relationals
CasosComRestricoes ==
    {[obj |-> <<Pw(1, N_x1, 2), Pw(1, N_x2, 2)>>, cons |-> l] :
        l \in UNION {[1..n -> Relacoes] : n \in 0..MaxCons}}

\* values of x0 of every accepted form, and of other forms, for the
\* variable list vs: None, a scalar, lists of the right and of other
\* lengths, symbol-keyed dicts (partial, complete, with a None value, with a
\* symbol that is no variable, empty), name-keyed dicts (partial, with an
\* unknown name) and a dict that mixes symbol and string keys
N_y1 == <<"y", "1">>
X0sDe(vs) ==
    LET n == Len(vs)
        primeira(val) == [v \in {vs[1]} |-> val]
        ultima(val) == [v \in {vs[n]} |-> val]
    IN  {X0None, X0Scalar(RInt(2)),
         X0List([i \in 1..n |-> RInt(i)]), X0List([i \in 1..(n + 1) |-> RInt(i)]),
         X0List(<<RInt(7)>>),
         X0Dict(primeira(RInt(3)), <<>>), X0Dict([v \in Range(vs) |-> RInt(5)], <<>>),
         X0Dict(primeira(Nenhum), <<>>), X0Dict([v \in {N_y1} |-> RInt(7)], <<>>),
         X0Dict(<<>>, <<>>),
         X0Dict(<<>>, ultima(RInt(4))), X0Dict(<<>>, [v \in {N_y1} |-> RInt(7)]),
         X0Dict(primeira(RInt(3)), ultima(RInt(4)))}

\* functions handed to a ConvexityAnalyzer through their Hessian, over one,
\* two and three variables
N_x3 == <<"x", "3">>
Funcoes ==
    {\* x1**2, -x1**2, x1, x1**3, x1**4, -x1**4, 1/x1, 7
     [vars |-> <<N_x1>>, f |-> <<Pw(1, N_x1, 2)>>],
     [vars |-> <<N_x1>>, f |-> <<Pw(-1, N_x1, 2)>>],
     [vars |-> <<N_x1>>, f |-> <<Pw(1, N_x1, 1)>>],
     [vars |-> <<N_x1>>, f |-> <<Pw(1, N_x1, 3)>>],
     [vars |-> <<N_x1>>, f |-> <<Pw(1, N_x1, 4)>>],
     [vars |-> <<N_x1>>, f |-> <<Pw(-1, N_x1, 4)>>],
     [vars |-> <<N_x1>>, f |-> <<Pw(1, N_x1, -1)>>],
     [vars |-> <<N_x1>>, f |-> <<Konst(7)>>],
     \* x1**2 + x2**2, x1**2 - x2**2, -x1**2 - x2**2, x1 + x2, x1**3 + x2**2
     [vars |-> <<N_x1, N_x2>>, f |-> <<Pw(1, N_x1, 2), Pw(1, N_x2, 2)>>],
     [vars |-> <<N_x1, N_x2>>, f |-> <<Pw(1, N_x1, 2), Pw(-1, N_x2, 2)>>],
     [vars |-> <<N_x1, N_x2>>, f |-> <<Pw(-1, N_x1, 2), Pw(-1, N_x2, 2)>>],
     [vars |-> <<N_x1, N_x2>>, f |-> <<Pw(1, N_x1, 1), Pw(1, N_x2, 1)>>],
     [vars |-> <<N_x1, N_x2>>, f |-> <<Pw(1, N_x1, 3), Pw(1, N_x2, 2)>>],
     \* x1**2 + 2*x1*x2 + x2**2
     [vars |-> <<N_x1, N_x2>>, f |-> <<Pw(1, N_x1, 2), Cross(2, N_x1, N_x2), Pw(1, N_x2, 2)>>],
     \* 1/x1 + x2**2
     [vars |-> <<N_x1, N_x2>>, f |-> <<Pw(1, N_x1, -1), Pw(1, N_x2, 2)>>],
     \* 1/x1 + x2**2 + x3**2
     [vars |-> <<N_x1, N_x2, N_x3>>,
      f |-> <<Pw(1, N_x1, -1), Pw(1, N_x2, 2), Pw(1, N_x3, 2)>>],
     \* x1**2 + x2**2 + x3**2, its negation, x1 + x2 + x3
     [vars |-> <<N_x1, N_x2, N_x3>>,
      f |-> <<Pw(1, N_x1, 2), Pw(1, N_x2, 2), Pw(1, N_x3, 2)>>],
     [vars |-> <<N_x1, N_x2, N_x3>>,
      f |-> <<Pw(-1, N_x1, 2), Pw(-1, N_x2, 2), Pw(-1, N_x3, 2)>>],
     [vars |-> <<N_x1, N_x2, N_x3>>,
      f |-> <<Pw(1, N_x1, 1), Pw(1, N_x2, 1), Pw(1, N_x3, 1)>>]}

\* domains: None, (-5, 5), (1, 3), (-3, -1), (0, 2), (0, 2, 1), a tuple of
\* four elements, the empty tuple, lists of points of one, two and three
\* coordinates, the empty list, the empty dict, a dict for x1 only, a dict for x1 and x2,
\* and a string
Intervalo(len, lo, hi, passo) == [len |-> len, lo |-> lo, hi |-> hi, passo |-> passo]
DominiosAnalise ==
    {NoDominio,
     DomTupla(2, RInt(-5), RInt(5), RZero), DomTupla(2, RInt(1), RInt(3), RZero),
     DomTupla(2, RInt(-3), RInt(-1), RZero), DomTupla(2, RInt(0), RInt(2), RZero),
     DomTupla(3, RInt(0), RInt(2), RInt(1)),
     DomTupla(4, RInt(0), RInt(2), RInt(1)), DomTupla(0, RZero, RZero, RZero),
     DomLista(<< <<RInt(1)>>, <<RInt(0)>> >>), DomLista(<< <<RInt(1), RInt(-1)>> >>),
     DomLista(<< <<RInt(0), RInt(1)>> >>), DomLista(<< <<RInt(0), RInt(1), RInt(1)>> >>),
     DomLista(<<>>), DomDict(<<>>),
     DomDict([v \in {N_x1} |-> Intervalo(2, RInt(-1), RInt(1), RZero)]),
     DomDict([v \in {N_x1, N_x2} |->
                IF v = N_x1 THEN Intervalo(3, RInt(1), RInt(2), RInt(1))
                ELSE Intervalo(1, RZero, RZero, RZero)]),
     DomOutro}

(***************************************************************************)
(* State                                                                   *)
(***************************************************************************)
VARIABLES
    model,      \* the SymbolicModel
    solver,     \* the fields of the SymbolicSolver
    pc,         \* position of the run of executar()
    it,         \* loop variable of the Newton loop (-1: unbound)
    xk,         \* current iterate of the Newton loop
    resultado,  \* what executar() returned or raised
    kkt,        \* the KKTChecker
    ret,        \* the last call made on the checker and what it returned
    chamadas,   \* number of single check calls made on the checker
    anteriores, \* what the earlier calls of executar() on this solver returned or raised
    analise     \* a ConvexityAnalyzer: its arguments, its points and what classificar returned

vars == <<model, solver, pc, it, xk, resultado, kkt, ret, chamadas, anteriores, analise>>

NewModel(mode, case) ==
    [objective_expr |-> [set |-> TRUE, expr |-> case.obj],
     objective_mode |-> mode,
     constraint_exprs |-> ExprList(case.cons),
     variables |-> VariableSet(<<>>, 0, 0, 0),
     objective |-> [set |-> FALSE, expr |-> <<>>],
     built |-> FALSE]

\* SymbolicModel() followed by the assignment of obj only: __init__ ends
\* with self.constraints = None, which the setter stores in _constraint_exprs
ModeloSemRestricoes(mode, obj) ==
    [NewModel(mode, [obj |-> obj, cons |-> <<>>]) EXCEPT !.constraint_exprs = NoConstraints]

NoSolver ==
    [tol |-> RZero, max_iter |-> 0, x0 |-> X0None, intervalo |-> "none",
     classificar_localmente |-> FALSE, entry |-> "executar",
     lagrangian |-> <<>>, gradiente |-> <<>>, hessiana |-> <<>>, variaveis |-> <<>>]

\* antes: length of the log when the call started
NoRet == [call |-> "none", ok |-> FALSE, log |-> <<>>, antes |-> 0]

Init ==
    /\ \E mode \in Modes, c \in DOMAIN Cases : model = NewModel(mode, Cases[c])
    /\ solver = NoSolver
    /\ pc = "idle"
    /\ it = -1
    /\ xk = <<>>
    /\ resultado = NoResult
    /\ kkt = NoKkt
    /\ ret = NoRet
    /\ chamadas = 0
    /\ anteriores = <<>>
    /\ analise = NoAnalise

(***************************************************************************)
(* SymbolicSolver: construction and the steps of executar()                *)
(***************************************************************************)
\* SymbolicSolver.__init__ with parameters drawn from the given sets: it
\* calls model.build() first, and no solver exists when build() raises
NovoSolver(tols, iters, x0s, entries, doms) ==
    /\ IF BuildOk(model)
       THEN /\ \E tol \in tols, max_iter \in iters, x0 \in x0s,
                  entry \in entries, dom \in doms :
                  /\ entry = "newton" => dom = "none"
                  /\ solver' = [NoSolver EXCEPT !.tol = tol, !.max_iter = max_iter,
                                             !.x0 = x0, !.entry = entry, !.intervalo = dom]
            /\ pc' = "built"
       ELSE solver' = solver /\ pc' = "build_error"
    /\ model' = Build(model)
    /\ UNCHANGED <<it, xk, resultado, kkt, ret, chamadas, anteriores, analise>>

\* SymbolicSolver(model, tol, max_iter, x0, intervalo_convexidade)
SolverInit ==
    /\ pc = "idle"
    /\ NovoSolver(Tols, 0..MaxIter, X0s \cup X0Parcial(Build(model).variables.x),
                  Entries, Dominios)

\* SymbolicSolver._construir_lagrangeana
StepLagrangeana ==
    /\ pc = "built"
    /\ solver' = [solver EXCEPT !.lagrangian =
                     ConstruirLagrangeana(model.objective, model.variables,
                                          model.constraint_exprs, model.objective_mode)]
    /\ pc' = "lagrangian"
    /\ UNCHANGED <<model, it, xk, resultado, kkt, ret, chamadas, anteriores, analise>>

\* SymbolicSolver._calcular_derivadas
StepDerivadas ==
    /\ pc = "lagrangian"
    /\ LET varset == AllSymbols(model.variables)
       IN  solver' = [solver EXCEPT !.gradiente = Gradient(solver.lagrangian, varset),
                                    !.hessiana = Hessian(solver.lagrangian, varset),
                                    !.variaveis = varset]
    /\ pc' = "derivatives"
    /\ UNCHANGED <<model, it, xk, resultado, kkt, ret, chamadas, anteriores, analise>>

\* SymbolicSolver._diagnostico_convexidade
StepDiagnostico ==
    /\ pc = "derivatives"
    /\ IF solver.intervalo = "none"
       THEN pc' = "diagnosed" /\ resultado' = resultado
       ELSE pc' = "config_error" /\ resultado' = Raised("ValueError_dominio", 0)
    /\ UNCHANGED <<model, solver, it, xk, kkt, ret, chamadas, anteriores, analise>>

\* the branch of executar() (or a direct call of _resolver_nonlinear_newton,
\* which starts with _preparar_chute)
StepDispatch ==
    /\ pc = "diagnosed"
    /\ IF solver.entry = "executar" /\ SistemaLinear(solver.gradiente)
       THEN pc' = "linear" /\ xk' = xk
       ELSE pc' = "newton" /\ xk' = PrepararChute(solver.x0, solver.variaveis)
    /\ UNCHANGED <<model, solver, it, resultado, kkt, ret, chamadas, anteriores, analise>>

StepLinear ==
    /\ pc = "linear"
    /\ LET r == ResolverLinear(solver, model.objective)
       IN  pc' = r.pc /\ resultado' = r.resultado
    /\ UNCHANGED <<model, solver, it, xk, kkt, ret, chamadas, anteriores, analise>>

\* variant: a loop of max_iter + 1 passes
StepNewtonUmAMais ==
    /\ pc = "newton"
    /\ it < solver.max_iter
    /\ InRange(xk)
    /\ LET r == NewtonPass(solver, it + 1, xk)
       IN  /\ pc' = r.pc /\ xk' = r.xk /\ resultado' = r.resultado
           /\ solver' = [solver EXCEPT !.x0 = X0AposPasso(solver.x0, r.xk)]
    /\ it' = it + 1
    /\ UNCHANGED <<model, kkt, ret, chamadas, anteriores, analise>>

\* one iteration of the Newton loop
StepNewton ==
    /\ pc = "newton"
    /\ it + 1 < solver.max_iter
    /\ InRange(xk)
    /\ LET r == NewtonPass(solver, it + 1, xk)
       IN  /\ pc' = r.pc /\ xk' = r.xk /\ resultado' = r.resultado
           /\ solver' = [solver EXCEPT !.x0 = X0AposPasso(solver.x0, r.xk)]
    /\ it' = it + 1
    /\ UNCHANGED <<model, kkt, ret, chamadas, anteriores, analise>>

\* variant: the iterate of the last update is tested before the raise
StepExhaustedComTeste ==
    /\ pc = "newton"
    /\ ~(it + 1 < solver.max_iter)
    /\ IF it >= 0 /\ InRange(xk) /\ Convergiu(GradEval(solver.gradiente, xk), solver.tol)
       THEN pc' = "converged" /\ resultado' = NewtonRecord(xk, it)
       ELSE pc' = "failed" /\ resultado' = NaoConvergiu(it)
    /\ UNCHANGED <<model, solver, it, xk, kkt, ret, chamadas, anteriores, analise>>

\* the loop is exhausted: the raise after the loop
StepExhausted ==
    /\ pc = "newton"
    /\ ~(it + 1 < solver.max_iter)
    /\ pc' = "failed"
    /\ resultado' = NaoConvergiu(it)
    /\ UNCHANGED <<model, solver, it, xk, kkt, ret, chamadas, anteriores, analise>>

\* the positions at which a call of executar() has returned or raised
Terminadas == {"linear_solved", "linear_failed", "converged", "failed", "config_error"}

\* a further call on the same solver: of executar(), which starts again with
\* the Lagrangian, or of _resolver_nonlinear_newton, which starts again with
\* _preparar_chute.  Calls are made before any KKTChecker is built.
ExecutarDeNovo ==
    /\ pc \in Terminadas
    /\ kkt.estado = "none"
    /\ Len(anteriores) + 1 < MaxRuns
    /\ anteriores' = Append(anteriores, resultado)
    /\ pc' = IF solver.entry = "executar" THEN "built" ELSE "diagnosed"
    /\ it' = -1
    /\ xk' = <<>>
    /\ resultado' = NoResult
    /\ UNCHANGED <<model, solver, kkt, ret, chamadas, analise>>

\* the positions of a run of executar() and the moves between them
RunEdges ==
    {<<"idle", "built">>, <<"idle", "model_built">>, <<"idle", "build_error">>}
    \cup (Terminadas \X {"built", "diagnosed"})
    \cup
    {     <<"built", "lagrangian">>, <<"lagrangian", "derivatives">>,
     <<"derivatives", "diagnosed">>, <<"derivatives", "config_error">>,
     <<"diagnosed", "linear">>, <<"diagnosed", "newton">>,
     <<"linear", "linear_solved">>, <<"linear", "linear_failed">>,
     <<"newton", "converged">>, <<"newton", "failed">>}
Running == {"built", "lagrangian", "derivatives", "diagnosed", "linear", "newton"}

\* the number of steps a run at position p, loop variable i, can still take
\* at most, for max_iter = m
Measure(p, i, m) ==
    CASE p = "built" -> m + 6
      [] p = "lagrangian" -> m + 5
      [] p = "derivatives" -> m + 4
      [] p = "diagnosed" -> m + 3
      [] p = "linear" -> 1
      [] p = "newton" -> (m - i) + 1
      [] OTHER -> 0

(***************************************************************************)
(* KKTChecker: construction and calls                                      *)
(***************************************************************************)
\* SymbolicModel.build() called on its own
BuildModel ==
    /\ pc = "idle"
    /\ model' = Build(model)
    /\ pc' = IF BuildOk(model) THEN "model_built" ELSE "build_error"
    /\ UNCHANGED <<solver, it, xk, resultado, kkt, ret, chamadas, anteriores, analise>>

\* KKTChecker(lagrangeana, solucao, tol) on the Lagrangian that
\* LagrangianBuilder builds for the model and a candidate solution
KKTCheckerInit ==
    /\ pc = "model_built"
    /\ kkt.estado = "none"
    /\ LET lagrangeana == ConstruirLagrangeana(model.objective, model.variables,
                                              model.constraint_exprs, model.objective_mode)
       IN  \E cand \in Candidatos(model.variables), tol \in KktTols :
               /\ Definido(ExprPoly(lagrangeana), cand)
               /\ kkt' = NewKkt(lagrangeana, cand, AllSymbols(model.variables), tol)
    /\ UNCHANGED <<model, solver, pc, it, xk, resultado, ret, chamadas, anteriores, analise>>

\* resolucao(): KKTChecker(lagrangeana=solver.lagrangian, solucao=resultado["solucao"])
KKTCheckerDoSolver ==
    /\ pc \in {"linear_solved", "converged"}
    /\ kkt.estado = "none"
    /\ kkt' = NewKkt(solver.lagrangian, resultado.solucao, solver.variaveis, KktTolDefault)
    /\ UNCHANGED <<model, solver, pc, it, xk, resultado, ret, chamadas, anteriores, analise>>

\* a call of one check: it returns r.ok and appends r.msgs to the log
ChamarCheck(nome, r) ==
    /\ ret.call # "verificar_todas"
    /\ chamadas < MaxCalls
    /\ kkt' = [kkt EXCEPT !.resultado_kkt = @ \o r.msgs]
    /\ ret' = [call |-> nome, ok |-> r.ok, log |-> <<>>, antes |-> Len(kkt.resultado_kkt)]
    /\ chamadas' = chamadas + 1
    /\ UNCHANGED <<model, solver, pc, it, xk, resultado, anteriores, analise>>

CallEstacionariedade ==
    /\ kkt.estado = "ready"
    /\ ChamarCheck("verificar_estacionariedade", VerificarEstacionariedade(kkt))
CallComplementaridadePrimal ==
    /\ kkt.estado = "ready"
    /\ ChamarCheck("verificar_complementaridade_primal", VerificarComplementaridadePrimal(kkt))
CallSatisfacaoRestricoes ==
    /\ kkt.estado = "ready"
    /\ ChamarCheck("verificar_satisfacao_restricoes", VerificarSatisfacaoRestricoes(kkt))
CallComplementaridadeDual ==
    /\ kkt.estado = "ready"
    /\ ChamarCheck("verificar_complementaridade_dual", VerificarComplementaridadeDual(kkt))
CallDominioPrimal ==
    /\ kkt.estado = "ready"
    /\ ChamarCheck("verificar_dominio_primal", VerificarDominioPrimal(kkt))
CallDominioMultiplicadores ==
    /\ kkt.estado = "ready"
    /\ ChamarCheck("verificar_dominio_multiplicadores", VerificarDominioMultiplicadores(kkt))

\* a call of verificar_todas
CallTodas ==
    /\ kkt.estado = "ready"
    /\ ret.call # "verificar_todas"
    /\ LET r == VerificarTodas(kkt)
       IN  /\ kkt' = [kkt EXCEPT !.resultado_kkt = r.log]
           /\ ret' = [call |-> "verificar_todas", ok |-> r.ok, log |-> r.log,
                      antes |-> Len(kkt.resultado_kkt)]
    /\ UNCHANGED <<model, solver, pc, it, xk, resultado, chamadas, anteriores, analise>>

Next ==
    \/ SolverInit
    \/ StepLagrangeana
    \/ StepDerivadas
    \/ StepDiagnostico
    \/ StepDispatch
    \/ StepLinear
    \/ StepNewton
    \/ StepExhausted
    \/ ExecutarDeNovo
    \/ BuildModel
    \/ KKTCheckerInit
    \/ KKTCheckerDoSolver
    \/ CallEstacionariedade
    \/ CallComplementaridadePrimal
    \/ CallSatisfacaoRestricoes
    \/ CallComplementaridadeDual
    \/ CallDominioPrimal
    \/ CallDominioMultiplicadores
    \/ CallTodas

Spec == Init /\ [][Next]_vars

(***************************************************************************)
(* The assembly of a run, up to the initial guess, over models with lists  *)
(* of constraints of every kind and over every form of x0                  *)
(***************************************************************************)
InitMontagem ==
    /\ \E mode \in Modes :
          \/ \E c \in CasosComRestricoes : model = NewModel(mode, c)
          \/ model = ModeloSemRestricoes(mode, <<Pw(1, N_x1, 2), Pw(1, N_x2, 2)>>)
    /\ solver = NoSolver
    /\ pc = "idle"
    /\ it = -1
    /\ xk = <<>>
    /\ resultado = NoResult
    /\ kkt = NoKkt
    /\ ret = NoRet
    /\ chamadas = 0
    /\ anteriores = <<>>
    /\ analise = NoAnalise

\* SymbolicSolver(model, x0=x0)
SolverInitMontagem ==
    /\ pc = "idle"
    /\ NovoSolver({TolDefault}, {MaxIter}, X0sDe(AllSymbols(Build(model).variables)),
                  Entries, {"none"})

\* a further call of build() on a model that is already built: a direct
\* call, or the construction of another SymbolicSolver on the same model
BuildDeNovo ==
    /\ pc \in {"model_built", "built"}
    /\ model.built
    /\ model' = Build(model)
    /\ pc' = IF BuildOk(model) THEN pc ELSE "build_error"
    /\ UNCHANGED <<solver, it, xk, resultado, kkt, ret, chamadas, anteriores, analise>>

NextMontagem ==
    \/ SolverInitMontagem
    \/ BuildModel
    \/ BuildDeNovo
    \/ StepLagrangeana
    \/ StepDerivadas
    \/ StepDiagnostico
    \/ StepDispatch

SpecMontagem == InitMontagem /\ [][NextMontagem]_vars

(***************************************************************************)
(* A ConvexityAnalyzer on its own: construction on a Hessian, a variable   *)
(* list and a domain, then classificar().                                   *)
(***************************************************************************)
InitConvexidade ==
    /\ model = NewModel("min", Cases[1])
    /\ solver = NoSolver
    /\ pc = "idle"
    /\ it = -1
    /\ xk = <<>>
    /\ resultado = NoResult
    /\ kkt = NoKkt
    /\ ret = NoRet
    /\ chamadas = 0
    /\ anteriores = <<>>
    /\ \E fn \in Funcoes, d \in DominiosAnalise :
          analise = [NoAnalise EXCEPT !.estado = "args",
                                      !.hessian = Hessian(ObjTerms(fn.f), fn.vars),
                                      !.vars = fn.vars, !.dominio = d]

\* ConvexityAnalyzer(hessian, variaveis, dominio)
ConvexityAnalyzerInit ==
    /\ analise.estado = "args"
    /\ LET g == IF DominioDado(analise.dominio)
                THEN GerarPontos(analise.dominio, analise.vars)
                ELSE [err |-> "none", pontos |-> <<>>]
       IN  analise' = [analise EXCEPT !.estado = IF g.err = "none" THEN "ready" ELSE g.err,
                                      !.pontos = g.pontos]
    /\ UNCHANGED <<model, solver, pc, it, xk, resultado, kkt, ret, chamadas, anteriores>>

\* analyzer.classificar()
StepClassificar ==
    /\ analise.estado \in {"ready", "classified"}
    /\ analise' = [analise EXCEPT !.estado = "classified", !.tipo = Classificar(analise)]
    /\ UNCHANGED <<model, solver, pc, it, xk, resultado, kkt, ret, chamadas, anteriores>>

NextConvexidade ==
    \/ ConvexityAnalyzerInit
    \/ StepClassificar

SpecConvexidade == InitConvexidade /\ [][NextConvexidade]_vars

(***************************************************************************)
(* Properties                                                              *)
(***************************************************************************)

\* C1 (as amended): a run of executar() moves built -> lagrangian ->
\* derivatives -> diagnosis -> dispatch in that order and ends in exactly one
\* of five outcomes: a record from the linear solve, a record from a
\* converged Newton loop, an error raised by the Newton loop, the error of
\* inverting a singular linear system, or the error of a malformed convexity
\* domain.  The Newton loop makes at most max_iter passes, and every step of
\* a run lowers a measure that is a natural number, so no run goes on for ever.
C1_RunStateMachine ==
    /\ [](/\ resultado.kind = "record" <=> pc \in {"linear_solved", "converged"}
          /\ resultado.kind = "error" <=> pc \in {"linear_failed", "failed", "config_error"}
          /\ pc \in {"newton", "converged", "failed"} => it + 1 <= solver.max_iter)
    /\ [][/\ pc' # pc => <<pc, pc'>> \in RunEdges
          /\ (pc \in Running /\ <<pc, it>> # <<pc', it'>>)
                => /\ Measure(pc', it', solver'.max_iter) >= 0
                   /\ Measure(pc', it', solver'.max_iter)
                         < Measure(pc, it, solver.max_iter)]_vars

\* C1 witness: the Newton loop exhausted the largest max_iter of the model
C1_Witness ==
    /\ pc = "failed"
    /\ resultado.err = "ValueError_nao_convergiu"
    /\ solver.max_iter = MaxIter
    /\ it + 1 = MaxIter

\* C1 as stated: every finished run ended as linear-solved, as Newton
\* converged or as Newton failed
C1_ThreeOutcomesOnly ==
    resultado.kind # "none" => pc \in {"linear_solved", "converged", "failed"}

\* C2: whenever the Newton loop returns a record, the returned solucao is the
\* current iterate, untouched since its convergence test, and every
\* component of the gradient evaluated at it is below tol in magnitude
C2_ConvergedPointPassesTest ==
    pc = "converged" =>
        LET g == GradEval(solver.gradiente, resultado.solucao)
        IN  /\ resultado.kind = "record"
            /\ resultado.solucao = xk
            /\ resultado.iteracoes = it + 1
            /\ \A i \in DOMAIN g : RLt(RAbs(g[i]), solver.tol)

\* C2 witness: convergence after at least one update, at a point where the
\* gradient is not exactly zero
C2_Witness ==
    /\ pc = "converged"
    /\ it >= 1
    /\ \E i \in DOMAIN solver.gradiente :
           Eval(solver.gradiente[i], resultado.solucao) # RZero

\* C3 (as amended): in a pass of the Newton loop whose convergence test fails,
\* a singular Hessian at the current iterate raises the singular-Hessian
\* ValueError and the iterate is not updated; a pass whose convergence test
\* succeeds returns the iterate without looking at the rank of the Hessian
C3_SingularHessianAfterFailedTest ==
    [][(pc = "newton" /\ it' = it + 1 /\
        RankDeficient(HessEval(solver.hessiana, xk))) =>
          IF Convergiu(GradEval(solver.gradiente, xk), solver.tol)
          THEN pc' = "converged" /\ resultado'.solucao = xk
          ELSE /\ pc' = "failed"
               /\ resultado' = Raised("ValueError_hessiana_singular", 0)
               /\ xk' = xk]_vars

\* C3 witness: the singular-Hessian error was raised
C3_Witness ==
    /\ pc = "failed"
    /\ resultado.err = "ValueError_hessiana_singular"
    /\ RankDeficient(HessEval(solver.hessiana, xk))

\* C3 as stated: no record is ever returned for an iterate at which the
\* Hessian is singular
C3_NoRecordAtSingularHessian ==
    pc = "converged" => ~RankDeficient(HessEval(solver.hessiana, resultado.solucao))

\* C4 as stated: for every max_iter >= 0, a loop that ends without
\* convergence and without a singular Hessian raises the non-convergence
\* ValueError carrying the count max_iter
C4_ExhaustionCarriesMaxIter ==
    (pc = "failed" /\ resultado.err # "ValueError_hessiana_singular") =>
        /\ resultado.err = "ValueError_nao_convergiu"
        /\ resultado.count = solver.max_iter

\* C5 (as amended): when every gradient component is a polynomial of total
\* degree <= 1, executar() takes the linear path and never the Newton loop;
\* if the matrix A of the system is invertible it returns iteracoes = 1 and
\* the solucao x with A x = b, and if A is singular it raises the inversion
\* error; a component that is no polynomial sends the run to the Newton loop
C5_LinearPath ==
    (solver.entry = "executar" /\
     pc \in {"linear", "newton", "linear_solved", "linear_failed", "converged", "failed"}) =>
        LET g == solver.gradiente
            vs == solver.variaveis
            linear == \A i \in DOMAIN g : IsPolynomial(g[i]) /\ TotalDegree(g[i]) <= 1
            A == [i \in DOMAIN g |-> [j \in DOMAIN vs |->
                     RInt(CoeffOf(g[i], SymExp(vs[j])))]]
            b == [i \in DOMAIN g |-> RInt(-CoeffOf(g[i], <<>>))]
            x == resultado.solucao
            Ax == [i \in DOMAIN g |-> SumSeq([j \in DOMAIN vs |-> RMul(A[i][j], x[vs[j]])])]
        IN  /\ linear <=> pc \in {"linear", "linear_solved", "linear_failed"}
            /\ pc = "linear_solved" =>
                   /\ Det(A) # RZero
                   /\ resultado.iteracoes = 1
                   /\ DOMAIN x = Range(vs)
                   /\ Ax = b
            /\ pc = "linear_failed" =>
                   Det(A) = RZero /\ resultado.err = "NonInvertibleMatrixError"
            /\ (\E i \in DOMAIN g : ~IsPolynomial(g[i])) => pc \in {"newton", "converged", "failed"}

\* C5 witness: a linear system in three variables (two decision variables
\* and a multiplier) was solved
C5_Witness ==
    /\ pc = "linear_solved"
    /\ Len(solver.variaveis) = 3
    /\ resultado.iteracoes = 1

\* C5 as stated: a run whose gradient components all have degree <= 1 ends
\* with a returned record reporting iteracoes = 1
C5_LinearAlwaysReturns ==
    (solver.entry = "executar" /\ pc \in {"linear_solved", "linear_failed"}) =>
        resultado.kind = "record" /\ resultado.iteracoes = 1

C9_EveryDecisionVariableChecked ==
    LET xs == Range(model.variables.x)
    IN  /\ ret.call = "verificar_estacionariedade" =>
               ((\E v \in xs : RGt(RAbs(DerivadaEm(kkt, v)), kkt.tol)) => ~ret.ok)
        /\ ret.call = "verificar_complementaridade_primal" =>
               ((\E v \in xs : RGt(RAbs(RMul(DerivadaEm(kkt, v), kkt.solucao[v])), kkt.tol))
                    => ~ret.ok)

\* C10 as stated: on the Lagrangian that LagrangianBuilder builds in min or
\* max mode, verificar_satisfacao_restricoes returns False iff the solution
\* violates a constraint of the model beyond tol: |h_i| > tol for an
\* equality, g_k - b_k < -tol for a lower inequality, g_j - b_j > tol for an
\* upper inequality
C10_SatisfacaoIffModelConstraintViolated ==
    (ret.call = "verificar_satisfacao_restricoes" /\ model.objective_mode \in {"min", "max"}) =>
        LET cs == model.constraint_exprs
            Residuo(pair) == Eval(PAdd(pair[1], PNeg(pair[2])), kkt.solucao)
            violada ==
                \/ \E i \in DOMAIN cs.equalities :
                       RGt(RAbs(Eval(cs.equalities[i], kkt.solucao)), kkt.tol)
                \/ \E k \in DOMAIN cs.inequalities_dn :
                       RLt(Residuo(cs.inequalities_dn[k]), RNeg(kkt.tol))
                \/ \E j \in DOMAIN cs.inequalities_up :
                       RGt(Residuo(cs.inequalities_up[j]), kkt.tol)
        IN  ret.ok = ~violada

\* C11 as stated: on the Lagrangian that LagrangianBuilder builds in min or
\* max mode, the pairs held by KKTChecker.restricoes are exactly one pair
\* (multiplier, residual without the slack term) per equality, per upper and
\* per lower inequality of the model, none of them taken from the objective;
\* and verificar_complementaridade_dual returns False iff
\* |multiplier_i * residual_i| > tol for some constraint i of the model
C11_PairsAreModelConstraints ==
    (kkt.estado = "ready" /\ model.objective_mode \in {"min", "max"}) =>
        LET cs == model.constraint_exprs
            vs == model.variables
            Residuo(pair) == PAdd(pair[1], PNeg(pair[2]))
            esperados ==
                [i \in DOMAIN cs.equalities |->
                    [mult |-> vs.lmd[i], expr |-> cs.equalities[i]]]
                \o [j \in DOMAIN cs.inequalities_up |->
                    [mult |-> vs.pi_up[j], expr |-> Residuo(cs.inequalities_up[j])]]
                \o [k \in DOMAIN cs.inequalities_dn |->
                    [mult |-> vs.pi_dn[k], expr |-> Residuo(cs.inequalities_dn[k])]]
            violada == \E i \in DOMAIN esperados :
                RGt(RAbs(RMul(kkt.solucao[esperados[i].mult],
                              Eval(esperados[i].expr, kkt.solucao))), kkt.tol)
        IN  /\ Len(kkt.restricoes) = Len(esperados)
            /\ Range(kkt.restricoes) = Range(esperados)
            /\ ret.call = "verificar_complementaridade_dual" => ret.ok = ~violada

\* C12 as stated: for any Lagrangian and any complete solution mapping, with
\* decision variables of any name, constructing the KKTChecker completes
\* without raising, and so does verificar_todas, which returns a pair
\* (bool, message list)
C12_ChecksNeverRaise ==
    /\ kkt.estado \in {"none", "ready"}
    /\ ret.call = "verificar_todas" => ret.ok \in BOOLEAN /\ ret.log # <<>>

\* C14 as stated: whenever SymbolicSolver has built the Lagrangian, the mode
\* it handed to LagrangianBuilder is "min" or "max", also for a model declared
\* with mode "auto"; so the sign of the objective term and the signs of the
\* inequality terms of L belong to one and the same mode
C14_AutoNeverReachesBuilder ==
    (pc \notin {"idle", "built", "model_built"}) =>
        /\ model.objective_mode \in {"min", "max"}
        /\ \E m \in {"min", "max"} :
               solver.lagrangian = ConstruirLagrangeana(model.objective, model.variables,
                                                        model.constraint_exprs, m)

\* C15 as stated: every record returned by executar(), from the linear solve
\* or from the Newton loop, holds in solucao a value for every symbol of
\* all_symbols(), the entry iteracoes and the entry hessiana
C15_RecordHasAllEntries ==
    resultado.kind = "record" =>
        /\ Range(AllSymbols(model.variables)) \subseteq DOMAIN resultado.solucao
        /\ {"solucao", "iteracoes", "hessiana"} \subseteq resultado.keys

C13_LagrangianFormula ==
    (pc \in {"lagrangian", "derivatives", "diagnosed", "linear", "newton"}
     /\ model.objective_mode \in {"min", "max"}) =>
        LET min == model.objective_mode = "min"
            f == model.objective.expr
            cs == model.constraint_exprs
            nup == Len(cs.inequalities_up)
            Nome(prefixo, i) == prefixo \o TextOfNat(i)
            Vezes(c, nome, p) == PScale(c, PTimesSym(p, nome))
            Sq(c, i) == Mono(c, [w \in {Nome(<<"s">>, i)} |-> 2])
            Eq(i) == Vezes(-1, Nome(<<"l", "a", "m", "b", "d", "a">>, i), cs.equalities[i])
            Up(j) == Vezes(IF min THEN 1 ELSE -1, Nome(<<"p", "i", "_", "u", "p">>, j),
                           PAdd(PAdd(cs.inequalities_up[j][1], PNeg(cs.inequalities_up[j][2])),
                                <<Sq(1, j)>>))
            Dn(k) == Vezes(IF min THEN -1 ELSE 1, Nome(<<"p", "i", "_", "d", "n">>, k),
                           PAdd(PAdd(cs.inequalities_dn[k][1], PNeg(cs.inequalities_dn[k][2])),
                                <<Sq(-1, nup + k)>>))
            Soma[n \in 0..(Len(cs.equalities) + nup + Len(cs.inequalities_dn))] ==
                IF n = 0 THEN (IF min THEN f ELSE PNeg(f))
                ELSE PAdd(Soma[n - 1],
                          IF n <= Len(cs.equalities) THEN Eq(n)
                          ELSE IF n <= Len(cs.equalities) + nup THEN Up(n - Len(cs.equalities))
                          ELSE Dn(n - Len(cs.equalities) - nup))
            esperada == Soma[Len(cs.equalities) + nup + Len(cs.inequalities_dn)]
            obtida == ExprPoly(solver.lagrangian)
        IN  /\ PAdd(obtida, PNeg(esperada)) = <<>>
            /\ Len(obtida) = Len(esperada)
            /\ \A i \in DOMAIN model.variables.s :
                   Cardinality({t \in DOMAIN solver.lagrangian :
                       model.variables.s[i] \in FreeSymbols(solver.lagrangian[t].inner)}) = 1

\* C13 witness: a Lagrangian in max mode over one upper and one lower
\* inequality, the lower one using the second slack
C13_Witness ==
    /\ pc = "lagrangian"
    /\ model.objective_mode = "max"
    /\ Len(model.constraint_exprs.inequalities_up) = 1
    /\ Len(model.constraint_exprs.inequalities_dn) = 1
    /\ \E t \in DOMAIN solver.lagrangian :
           /\ solver.lagrangian[t].mult = <<P_pi_dn \o <<"1">>>>
           /\ <<"s", "2">> \in FreeSymbols(solver.lagrangian[t].inner)

C18_ContainerLengths ==
    model.built =>
        LET vs == model.variables
            cs == model.constraint_exprs
        IN  /\ cs.tag = "set"
            /\ Len(vs.lmd) = Len(cs.equalities)
            /\ Len(vs.pi_up) = Len(cs.inequalities_up)
            /\ Len(vs.pi_dn) = Len(cs.inequalities_dn)
            /\ Len(vs.s) = Len(cs.inequalities_up) + Len(cs.inequalities_dn)

\* C18 witness: the Newton loop is about to start on a model with one upper
\* and one lower inequality
C18_Witness ==
    /\ pc = "newton"
    /\ model.built
    /\ Len(model.constraint_exprs.inequalities_up) = 1
    /\ Len(model.constraint_exprs.inequalities_dn) = 1
    /\ Len(model.variables.s) = 2

\* C19: build() on a list of constraints files every = as the residual
\* lhs - rhs in equalities, every >= and > as (lhs, rhs) in inequalities_dn,
\* every <= and < as (lhs, rhs) in inequalities_up, each collection in the
\* order of the input list; when some expression is of no such kind it
\* raises and the model is not built
C19_BuildDistributes ==
    [][(pc = "idle" /\ pc' # "idle" /\ model.constraint_exprs.tag = "list") =>
          LET items == model.constraint_exprs.items
              Indices(kinds) == SelectSeq([i \in DOMAIN items |-> i],
                                          LAMBDA i : items[i].rel \in kinds)
              ie == Indices({"eq"})
              id == Indices({"ge", "gt"})
              iu == Indices({"le", "lt"})
              cs == model'.constraint_exprs
          IN  IF \A i \in DOMAIN items : items[i].rel \in {"eq", "ge", "gt", "le", "lt"}
              THEN /\ pc' \in {"built", "model_built"}
                   /\ model'.built
                   /\ cs.equalities =
                          [n \in DOMAIN ie |-> PAdd(items[ie[n]].lhs, PNeg(items[ie[n]].rhs))]
                   /\ cs.inequalities_dn =
                          [n \in DOMAIN id |-> <<items[id[n]].lhs, items[id[n]].rhs>>]
                   /\ cs.inequalities_up =
                          [n \in DOMAIN iu |-> <<items[iu[n]].lhs, items[iu[n]].rhs>>]
              ELSE /\ pc' = "build_error"
                   /\ ~model'.built
                   /\ cs = model.constraint_exprs]_vars

\* C19 witness: a built model whose list held a < before a <=, filed in
\* that order
C19_Witness ==
    /\ model.built
    /\ model.constraint_exprs.inequalities_up =
           <<  <<<<Pw(1, N_x2, 1)>>, <<Konst(3)>>>>, <<<<Pw(1, N_x1, 1)>>, <<Konst(1)>>>>  >>


\* C20: for one variable, classificar() classifies the sampled values of the
\* second derivative by uniform sign: all > 0 'estritamente convexa', all < 0
\* 'estritamente concava', all about 0 'linear' (f(x) = x), all >= 0 with
\* some > 0 'convexa', all <= 0 with some < 0 'concava', mixed signs 'nem
\* convexa nem concava'.
C20_Classifies1dBySign ==
    (analise.estado = "classified" /\ Len(analise.vars) = 1 /\ analise.pontos # <<>>) =>
        LET valores == Valores1d(analise)
            Todos(T(_)) == \A i \in DOMAIN valores : T(valores[i])
        IN  valores # <<>> =>
                analise.tipo =
                    (IF Todos(Pos) THEN "estritamente convexa"
                     ELSE IF Todos(Neg) THEN "estritamente concava"
                     ELSE IF Todos(QuaseZero) THEN "linear"
                     ELSE IF Todos(LAMBDA v : ~Neg(v)) THEN "convexa"
                     ELSE IF Todos(LAMBDA v : ~Pos(v)) THEN "concava"
                     ELSE "nem convexa nem concava")

\* C21: for three or more variables, classificar() returns 'linear' when
\* every leading principal minor is about 0 at every point, 'estritamente
\* convexa' when all are > 0, 'convexa' when all are >= 0, 'estritamente
\* concava' when at every point (-1)^k * minor_k > 0 for every order k,
\* 'concava' when that pattern holds non-strictly, and 'nem convexa nem
\* concava' otherwise.
C21_ClassifiesNdByMinors ==
    (analise.estado = "classified" /\ Len(analise.vars) >= 3 /\ Menores(analise) # <<>>) =>
        LET ms == Menores(analise)
            Todos(T(_, _)) == \A p \in DOMAIN ms : \A k \in DOMAIN ms[p] : T(k, ms[p][k])
        IN  analise.tipo =
                (IF Todos(LAMBDA k, v : QuaseZero(v)) THEN "linear"
                 ELSE IF Todos(LAMBDA k, v : Pos(v)) THEN "estritamente convexa"
                 ELSE IF Todos(LAMBDA k, v : ~Neg(v)) THEN "convexa"
                 ELSE IF Todos(LAMBDA k, v : IF k % 2 = 1 THEN Neg(v) ELSE Pos(v))
                 THEN "estritamente concava"
                 ELSE IF Todos(LAMBDA k, v : IF k % 2 = 1 THEN ~Pos(v) ELSE ~Neg(v))
                 THEN "concava"
                 ELSE "nem convexa nem concava")

C23_MalformedDomainRaises ==
    analise.estado # "args" =>
        LET d == analise.dominio
            n == Len(analise.vars)
            aceito ==
                CASE d.kind = "none" -> TRUE
                  [] d.kind = "list" ->
                        d.pontos # <<>> /\ \A i \in DOMAIN d.pontos : Len(d.pontos[i]) = n
                  [] d.kind = "tuple" -> d.len \in {2, 3}
                  [] d.kind = "dict" ->
                        \A i \in 1..n : /\ analise.vars[i] \in DOMAIN d.intervalos
                                        /\ d.intervalos[analise.vars[i]].len \in {2, 3}
                  [] OTHER -> FALSE
        IN  ~aceito => analise.estado = "ValueError" /\ analise.tipo = "none"

\* C30: classificar() is symmetric under negation of the Hessian: on the same
\* points, -H gets the mirror of the class of H ('estritamente convexa' <->
\* 'estritamente concava', 'convexa' <-> 'concava', the other three classes
\* unchanged), for one, two and more variables
C30_NegationSymmetry ==
    analise.estado = "classified" =>
        LET menosH == [i \in DOMAIN analise.hessian |->
                          [j \in DOMAIN analise.hessian[i] |-> PNeg(analise.hessian[i][j])]]
            espelho == CASE analise.tipo = "estritamente convexa" -> "estritamente concava"
                         [] analise.tipo = "estritamente concava" -> "estritamente convexa"
                         [] analise.tipo = "convexa" -> "concava"
                         [] analise.tipo = "concava" -> "convexa"
                         [] OTHER -> analise.tipo
        IN  Classificar([analise EXCEPT !.hessian = menosH]) = espelho

\* C24: a pass of the Newton loop changes the iterate only when the Hessian
\* evaluated at it has full rank (determinant other than zero), and the loop
\* then goes on; when the singular-Hessian error is raised the iterate is
\* the one at which the Hessian, of determinant zero, was evaluated
C24_UpdateOnlyWithFullRank ==
    [][(pc = "newton" /\ it' = it + 1) =>
          /\ xk' # xk =>
                pc' = "newton" /\ Det(HessEval(solver.hessiana, xk)) # RZero
          /\ resultado'.err = "ValueError_hessiana_singular" =>
                xk' = xk /\ Det(HessEval(solver.hessiana, xk)) = RZero]_vars

\* C24 witness: the singular-Hessian error was raised at an iterate that an
\* earlier update of the same run had produced
C24_Witness ==
    /\ pc = "failed"
    /\ resultado.err = "ValueError_hessiana_singular"
    /\ it >= 1
    /\ xk # PrepararChute(solver.x0, solver.variaveis)
    /\ Det(HessEval(solver.hessiana, xk)) = RZero

\* C25 (as amended): an iterate at which a pass of the loop makes the
\* convergence test and finds the gradient norm below tol is returned as
\* converged, so a run that raises non-convergence had no tested iterate
\* below tol; the iterate produced by the last update, number max_iter, is
\* never tested: the loop is left and the error is raised whatever the
\* gradient at that iterate
C25_TestedIteratesOnly ==
    [][pc = "newton" =>
          /\ (it' = it + 1 /\ Convergiu(GradEval(solver.gradiente, xk), solver.tol)) =>
                /\ pc' = "converged"
                /\ resultado'.kind = "record"
                /\ resultado'.solucao = xk
          /\ (it' = it /\ pc' # pc) =>
                /\ it + 1 >= solver.max_iter
                /\ pc' = "failed"
                /\ resultado'.kind = "error"
                /\ xk' = xk]_vars

\* C25 witness: non-convergence was raised after two passes although the
\* iterate produced by the second update has a gradient norm below tol
C25_Witness ==
    /\ pc = "failed"
    /\ resultado.err = "ValueError_nao_convergiu"
    /\ it = 1
    /\ solver.max_iter = 2
    /\ Convergiu(GradEval(solver.gradiente, xk), solver.tol)

\* C25 as stated: when the non-convergence error is raised, the iterate
\* produced by the last update has a gradient norm that is not below tol
C25_LastIterateNotConverged ==
    (pc = "failed" /\ resultado.err = "ValueError_nao_convergiu") =>
        ~Convergiu(GradEval(solver.gradiente, xk), solver.tol)

\* C26: a solution that a solver with the default tol returned as converged
\* passes verificar_estacionariedade() of the KKTChecker that resolucao
\* builds, with the checker's default tolerance, on the solver's Lagrangian
C26_ConvergedPassesStationarity ==
    (/\ pc = "converged"
     /\ solver.tol = TolDefault
     /\ kkt.estado = "ready"
     /\ kkt.tol = KktTolDefault
     /\ ret.call = "verificar_estacionariedade") => ret.ok

\* C27: build() may be called again on a model that is built (a second
\* SymbolicSolver on the same model does so): the call succeeds and the
\* model keeps its decision variables, objective and three collections
C27_BuildRepeatable ==
    [][model.built =>
          /\ pc' # "build_error"
          /\ model'.built
          /\ model'.variables = model.variables
          /\ model'.objective = model.objective
          /\ model'.constraint_exprs = model.constraint_exprs]_vars

\* C28: on a model with an objective whose constraints were never assigned,
\* build() succeeds and leaves zero equalities, zero upper and zero lower
\* inequalities
C28_FreshModelBuilds ==
    [][(pc = "idle" /\ pc' # "idle" /\ model.constraint_exprs.tag = "none") =>
          /\ pc' \in {"built", "model_built"}
          /\ model'.built
          /\ model'.constraint_exprs = ConstraintSet(<<>>, <<>>, <<>>)]_vars

\* C29: once the derivatives of a model with at least one inequality are
\* computed, the component of the gradient for every slack is the single
\* monomial +-2 * pi * s of total degree 2 with pi the multiplier of the same
\* inequality, the linearity test is false, and the run is never in the
\* linear solve: executar() dispatches it to the Newton loop
C29_InequalityNeverLinear ==
    (/\ pc \in {"derivatives", "diagnosed", "linear", "newton"}
     /\ Len(model.variables.s) >= 1) =>
        LET vs == model.variables
            g == solver.gradiente
            pis == vs.pi_up \o vs.pi_dn
            base == Len(vs.x) + Len(vs.lmd) + Len(pis)
        IN  /\ \A j \in DOMAIN vs.s :
                  /\ solver.variaveis[base + j] = vs.s[j]
                  /\ Len(g[base + j]) = 1
                  /\ g[base + j][1].c \in {2, -2}
                  /\ g[base + j][1].e = [w \in {pis[j], vs.s[j]} |-> 1]
                  /\ TotalDegree(g[base + j]) = 2
            /\ ~SistemaLinear(g)
            /\ pc # "linear"

\* C29 witness: executar() sent to the Newton loop a model with an
\* inequality whose gradient components for the decision variables are all
\* of degree <= 1, so that only the slack terms make the system nonlinear
C29_Witness ==
    /\ pc = "newton"
    /\ solver.entry = "executar"
    /\ Len(model.variables.s) >= 1
    /\ \A i \in 1..Len(model.variables.x) :
           IsPolynomial(solver.gradiente[i]) /\ TotalDegree(solver.gradiente[i]) <= 1

====
